---- MODULE Spec2Model ----
(***************************************************************************)
(* A model of laugh_engine's DeferredRenderer (deferred_renderer.h): the   *)
(* CPU thread running run() (initVulkan, the one-time precompute stage,    *)
(* the frame loop, the shutdown save) and the GPU side it feeds (the       *)
(* compute queue, the graphics queue, the presentation engine), together    *)
(* with the render passes, descriptor sets and command buffers the         *)
(* renderer declares.                                                      *)
(***************************************************************************)
EXTENDS Integers, Sequences, FiniteSets, TLC

(***************************************************************************)
(* Bounds of the model.                                                    *)
(***************************************************************************)
\* Number of iterations of the frame loop that are explored.
MaxFrames == 2
\* Number of images of the swapchain (one present command buffer each).
NumSwapImages == 2
\* The largest number of models loaded.
MaxModels == 6
\* The largest number of times the descriptor sets are created.
MaxCreateCalls == 3
\* The largest value of a colour channel.
MaxColor == 3
\* The largest number of models the command buffers are recorded for.
MaxDrawnModels == 2
\* The largest mip count of the specular irradiance map the recording is applied to.
MaxMipLevels == 4
\* The largest width and height of the swapchain, in texels.
MaxExtent == 4

(***************************************************************************)
(* VkResult values an API call can return.                                 *)
(***************************************************************************)
VK_SUCCESS == "VK_SUCCESS"
VK_SUBOPTIMAL_KHR == "VK_SUBOPTIMAL_KHR"
VK_ERROR_OUT_OF_DATE_KHR == "VK_ERROR_OUT_OF_DATE_KHR"
VK_TIMEOUT == "VK_TIMEOUT"
VK_ERROR_DEVICE_LOST == "VK_ERROR_DEVICE_LOST"

\* Return codes of vkAcquireNextImageKHR (the wait is bounded, so it can time out).
AcquireResults ==
    {VK_SUCCESS, VK_SUBOPTIMAL_KHR, VK_ERROR_OUT_OF_DATE_KHR, VK_TIMEOUT,
     VK_ERROR_DEVICE_LOST}
\* Return codes of vkQueueSubmit.
SubmitResults == {VK_SUCCESS, VK_ERROR_DEVICE_LOST}
\* Return codes of vkQueuePresentKHR.
PresentResults ==
    {VK_SUCCESS, VK_SUBOPTIMAL_KHR, VK_ERROR_OUT_OF_DATE_KHR, VK_ERROR_DEVICE_LOST}

(***************************************************************************)
(* Synchronization objects (createSynchronizationObjects).                 *)
(***************************************************************************)
Semaphores ==
    {"m_imageAvailableSemaphore", "m_geomAndLightingCompleteSemaphore",
     "m_postEffectSemaphore", "m_finalOutputFinishedSemaphore",
     "m_renderFinishedSemaphore"}
Fences == {"m_brdfLutFence", "m_envPrefilterFence"}

VARIABLES
    pc,                   \* where the CPU thread is in run()
    raised,               \* the runtime_error that left run(), or "none"
    frame,                \* number of the current iteration of the frame loop
    imageIndex,           \* drawFrame's local imageIndex
    acqResult,            \* result of this frame's acquisition, or "none"
    subResult,            \* result of the latest queue submission, or "none"
    presResult,           \* result of this frame's present call, or "none"
    frameSubmits,         \* batches submitted by this frame's drawFrame, in order
    framePresent,         \* wait semaphores of this frame's present call, or <<>>
    frameRecreates,       \* recreateSwapChain calls made by this frame's drawFrame
    m_bakedBrdfReady, diffMapReady, specMapReady,
    m_shouldSaveBakedBrdf, shouldSaveDiffMap, shouldSaveSpecMap,
    fences,               \* the local vector `fences` of the precompute stage
    fenceSignaled,        \* fence -> signaled
    sem,                  \* semaphore -> signaled
    acqPending,           \* frames whose acquired image is not yet signaled available
    computeQueue,         \* batches submitted to the compute queue, not yet finished
    gfxQueue,             \* batches submitted to the graphics queue, not yet finished
    gpuStep,              \* 0: head batch of gfxQueue not started; k: at its k-th step
    semSignaler,          \* semaphore -> <<frame, kind>> of its latest signal operation
    started,              \* batches that began, with the signal each one's wait consumed
    finished,             \* <<frame, kind>> of the batches that completed
    presented,            \* frames whose present request was executed
    uniformWriting,       \* the CPU is inside the memcpy into the mapped uniform buffer
    imgs,                 \* image -> layout and latest accesses
    hazards,              \* accesses of the latest subpass the declared dependencies do not order
    layoutErrors,         \* layouts declared by the latest operation that were not the actual ones
    cacheFiles,           \* artifacts whose cache file was on disk at startup
    recorded,             \* precompute passes recorded into command buffers by initVulkan
    savedToDisk,          \* artifacts savePrecomputationResults wrote to disk
    calc                  \* the construction step under study and its inputs, or NoCalc

vars ==
    <<pc, raised, frame, imageIndex, acqResult, subResult, presResult, frameSubmits,
      framePresent, frameRecreates, m_bakedBrdfReady, diffMapReady, specMapReady,
      m_shouldSaveBakedBrdf, shouldSaveDiffMap, shouldSaveSpecMap, fences,
      fenceSignaled, sem, acqPending, computeQueue, gfxQueue, gpuStep, semSignaler,
      started, finished, presented, uniformWriting, imgs, hazards,
      layoutErrors, cacheFiles, recorded, savedToDisk, calc>>

\* What run() leaves alone outside initVulkan and savePrecomputationResults.
setupVars == <<cacheFiles, recorded, savedToDisk, calc>>

cpuVars ==
    <<pc, raised, frame, imageIndex, acqResult, subResult, presResult, frameSubmits,
      framePresent, frameRecreates, m_bakedBrdfReady, diffMapReady, specMapReady,
      m_shouldSaveBakedBrdf, shouldSaveDiffMap, shouldSaveSpecMap, fences,
      uniformWriting>>

cacheVars ==
    <<m_bakedBrdfReady, diffMapReady, specMapReady,
      m_shouldSaveBakedBrdf, shouldSaveDiffMap, shouldSaveSpecMap>>

frameVars ==
    <<frame, imageIndex, acqResult, presResult, frameSubmits, framePresent,
      frameRecreates>>

gpuVars ==
    <<fenceSignaled, sem, acqPending, computeQueue, gfxQueue, gpuStep, semSignaler,
      started, finished, presented>>

imageVars == <<imgs, hazards, layoutErrors>>

(***************************************************************************)
(* Images, image layouts, pipeline stages and access types.                *)
(***************************************************************************)
\* Number of models of MODEL_NAMES.
NumModels == 1
\* Number of mip levels of the specular irradiance map that are prefiltered.
SpecMipLevels == 2
\* Number of blur iterations recorded by createPostEffectCommandBuffer.
NumBlurIterations == 5

DepthImage == <<"m_depthImage", 0>>
GBufferImage(i) == <<"m_gbufferImages", i>>
LightingResultImage == <<"m_lightingResultImage", 0>>
PostEffectImage(i) == <<"m_postEffectImages", i>>
SwapChainImage(i) == <<"swapChainImage", i>>
BakedBrdfImage == <<"m_bakedBRDFs", 0>>
DiffuseIrradianceMap == <<"m_skybox.diffuseIrradianceMap", 0>>
SpecularIrradianceMap == <<"m_skybox.specularIrradianceMap", 0>>

\* Images sized to the swapchain, recreated with it.
SwapChainDependentImages ==
    {DepthImage, LightingResultImage}
    \cup {GBufferImage(i) : i \in 0..2}
    \cup {PostEffectImage(i) : i \in 0..1}
    \cup {SwapChainImage(i) : i \in 0..(NumSwapImages - 1)}
PrecomputedImages == {BakedBrdfImage, DiffuseIrradianceMap, SpecularIrradianceMap}
Images == SwapChainDependentImages \cup PrecomputedImages

UNDEFINED == "VK_IMAGE_LAYOUT_UNDEFINED"
GENERAL == "VK_IMAGE_LAYOUT_GENERAL"
COLOR_ATTACHMENT_OPTIMAL == "VK_IMAGE_LAYOUT_COLOR_ATTACHMENT_OPTIMAL"
DEPTH_STENCIL_ATTACHMENT_OPTIMAL == "VK_IMAGE_LAYOUT_DEPTH_STENCIL_ATTACHMENT_OPTIMAL"
DEPTH_STENCIL_READ_ONLY_OPTIMAL == "VK_IMAGE_LAYOUT_DEPTH_STENCIL_READ_ONLY_OPTIMAL"
SHADER_READ_ONLY_OPTIMAL == "VK_IMAGE_LAYOUT_SHADER_READ_ONLY_OPTIMAL"
TRANSFER_SRC_OPTIMAL == "VK_IMAGE_LAYOUT_TRANSFER_SRC_OPTIMAL"
PRESENT_SRC_KHR == "VK_IMAGE_LAYOUT_PRESENT_SRC_KHR"

TOP_OF_PIPE == "VK_PIPELINE_STAGE_TOP_OF_PIPE_BIT"
VERTEX_SHADER == "VK_PIPELINE_STAGE_VERTEX_SHADER_BIT"
GEOMETRY_SHADER == "VK_PIPELINE_STAGE_GEOMETRY_SHADER_BIT"
EARLY_FRAGMENT_TESTS == "VK_PIPELINE_STAGE_EARLY_FRAGMENT_TESTS_BIT"
FRAGMENT_SHADER == "VK_PIPELINE_STAGE_FRAGMENT_SHADER_BIT"
LATE_FRAGMENT_TESTS == "VK_PIPELINE_STAGE_LATE_FRAGMENT_TESTS_BIT"
COLOR_ATTACHMENT_OUTPUT == "VK_PIPELINE_STAGE_COLOR_ATTACHMENT_OUTPUT_BIT"
BOTTOM_OF_PIPE == "VK_PIPELINE_STAGE_BOTTOM_OF_PIPE_BIT"

\* The stages of the graphics pipeline, in their logical order.
StageOrder ==
    <<TOP_OF_PIPE, VERTEX_SHADER, GEOMETRY_SHADER, EARLY_FRAGMENT_TESTS,
      FRAGMENT_SHADER, LATE_FRAGMENT_TESTS, COLOR_ATTACHMENT_OUTPUT, BOTTOM_OF_PIPE>>
GraphicsStages == {StageOrder[i] : i \in 1..Len(StageOrder)}
StageRank(s) == CHOOSE i \in 1..Len(StageOrder) : StageOrder[i] = s

INPUT_ATTACHMENT_READ == "VK_ACCESS_INPUT_ATTACHMENT_READ_BIT"
SHADER_READ == "VK_ACCESS_SHADER_READ_BIT"
SHADER_WRITE == "VK_ACCESS_SHADER_WRITE_BIT"
COLOR_ATTACHMENT_READ == "VK_ACCESS_COLOR_ATTACHMENT_READ_BIT"
COLOR_ATTACHMENT_WRITE == "VK_ACCESS_COLOR_ATTACHMENT_WRITE_BIT"
DEPTH_STENCIL_ATTACHMENT_READ == "VK_ACCESS_DEPTH_STENCIL_ATTACHMENT_READ_BIT"
DEPTH_STENCIL_ATTACHMENT_WRITE == "VK_ACCESS_DEPTH_STENCIL_ATTACHMENT_WRITE_BIT"
AttachmentAccesses ==
    {INPUT_ATTACHMENT_READ, COLOR_ATTACHMENT_READ, COLOR_ATTACHMENT_WRITE,
     DEPTH_STENCIL_ATTACHMENT_READ, DEPTH_STENCIL_ATTACHMENT_WRITE}
AllAccesses == AttachmentAccesses \cup {SHADER_READ, SHADER_WRITE}

\* VK_SUBPASS_EXTERNAL, as a subpass index.
EXTERNAL == -1

LOAD_OP_CLEAR == "VK_ATTACHMENT_LOAD_OP_CLEAR"
LOAD_OP_LOAD == "VK_ATTACHMENT_LOAD_OP_LOAD"

(***************************************************************************)
(* The render passes, as declared.                                         *)
(***************************************************************************)
Attachment(initial, final, loadOp) ==
    [initial |-> initial, final |-> final, loadOp |-> loadOp]
Ref(att, layout) == [att |-> att, layout |-> layout]

\* A stage mask of a first synchronization scope also covers the earlier stages.
Earlier(stages) ==
    {s \in GraphicsStages : \E t \in stages : StageRank(s) <= StageRank(t)}
\* A stage mask of a second synchronization scope also covers the later stages.
Later(stages) ==
    {s \in GraphicsStages : \E t \in stages : StageRank(s) >= StageRank(t)}

\* A dependency with its scopes: the execution scopes extend the stage masks
\* to the logically earlier (source) or later (destination) stages, the
\* access scopes cover only the stages named in the masks.
Dependency(src, dst, srcStage, dstStage, srcAccess, dstAccess) ==
    [src |-> src, dst |-> dst, srcStage |-> srcStage, dstStage |-> dstStage,
     srcAccess |-> srcAccess, dstAccess |-> dstAccess,
     srcExec |-> Earlier(srcStage), dstExec |-> Later(dstStage),
     firstAccess |-> srcStage \X srcAccess, secondAccess |-> dstStage \X dstAccess]

\* createSpecEnvPrefilterRenderPass
SpecEnvPrefilterRenderPass ==
    [attachments |-> <<Attachment(UNDEFINED, COLOR_ATTACHMENT_OPTIMAL, LOAD_OP_CLEAR)>>,
     subpasses |-> << [color |-> <<Ref(0, COLOR_ATTACHMENT_OPTIMAL)>>,
                       depth |-> <<>>, input |-> <<>>] >>,
     deps |-> { Dependency(EXTERNAL, 0, {BOTTOM_OF_PIPE}, {COLOR_ATTACHMENT_OUTPUT},
                           {}, {COLOR_ATTACHMENT_READ, COLOR_ATTACHMENT_WRITE}),
                Dependency(0, EXTERNAL, {COLOR_ATTACHMENT_OUTPUT}, {TOP_OF_PIPE},
                           {COLOR_ATTACHMENT_READ, COLOR_ATTACHMENT_WRITE}, {}) }]

\* The dependency from the geometry subpass to the lighting subpass.
GeomToLightingDependency ==
    Dependency(0, 1,
               {COLOR_ATTACHMENT_OUTPUT, LATE_FRAGMENT_TESTS},
               {FRAGMENT_SHADER, COLOR_ATTACHMENT_OUTPUT, EARLY_FRAGMENT_TESTS},
               {COLOR_ATTACHMENT_WRITE, DEPTH_STENCIL_ATTACHMENT_WRITE},
               {INPUT_ATTACHMENT_READ, COLOR_ATTACHMENT_READ,
                COLOR_ATTACHMENT_WRITE, DEPTH_STENCIL_ATTACHMENT_READ})

\* createGeometryAndLightingRenderPass
GeomAndLightRenderPass ==
    [attachments |->
        << Attachment(UNDEFINED, SHADER_READ_ONLY_OPTIMAL, LOAD_OP_CLEAR),   \* 0 depth
           Attachment(UNDEFINED, SHADER_READ_ONLY_OPTIMAL, LOAD_OP_CLEAR),   \* 1 g-buffer 1
           Attachment(UNDEFINED, SHADER_READ_ONLY_OPTIMAL, LOAD_OP_CLEAR),   \* 2 g-buffer 2
           Attachment(UNDEFINED, SHADER_READ_ONLY_OPTIMAL, LOAD_OP_CLEAR),   \* 3 g-buffer 3
           Attachment(UNDEFINED, SHADER_READ_ONLY_OPTIMAL, LOAD_OP_CLEAR) >>,\* 4 lighting
     subpasses |->
        << [color |-> <<Ref(1, COLOR_ATTACHMENT_OPTIMAL), Ref(2, COLOR_ATTACHMENT_OPTIMAL),
                        Ref(3, COLOR_ATTACHMENT_OPTIMAL)>>,
            depth |-> <<Ref(0, DEPTH_STENCIL_ATTACHMENT_OPTIMAL)>>,
            input |-> <<>>],
           [color |-> <<Ref(4, COLOR_ATTACHMENT_OPTIMAL)>>,
            depth |-> <<Ref(0, DEPTH_STENCIL_READ_ONLY_OPTIMAL)>>,
            input |-> <<Ref(1, SHADER_READ_ONLY_OPTIMAL), Ref(2, SHADER_READ_ONLY_OPTIMAL),
                        Ref(3, SHADER_READ_ONLY_OPTIMAL),
                        Ref(0, DEPTH_STENCIL_READ_ONLY_OPTIMAL)>>] >>,
     deps |->
        { Dependency(EXTERNAL, 0, {BOTTOM_OF_PIPE},
                     {COLOR_ATTACHMENT_OUTPUT, EARLY_FRAGMENT_TESTS, LATE_FRAGMENT_TESTS},
                     {},
                     {COLOR_ATTACHMENT_READ, COLOR_ATTACHMENT_WRITE,
                      DEPTH_STENCIL_ATTACHMENT_READ, DEPTH_STENCIL_ATTACHMENT_WRITE}),
          GeomToLightingDependency,
          Dependency(1, EXTERNAL, {COLOR_ATTACHMENT_OUTPUT},
                     {FRAGMENT_SHADER, COLOR_ATTACHMENT_OUTPUT},
                     {COLOR_ATTACHMENT_WRITE},
                     {SHADER_READ, COLOR_ATTACHMENT_READ, COLOR_ATTACHMENT_WRITE}) }]

\* The one dependency each bloom render pass declares.
BloomExternalDependency ==
    Dependency(EXTERNAL, 0, {COLOR_ATTACHMENT_OUTPUT}, {FRAGMENT_SHADER},
               {COLOR_ATTACHMENT_READ, COLOR_ATTACHMENT_WRITE},
               {SHADER_READ, SHADER_WRITE})

\* createBloomRenderPasses: m_bloomRenderPasses[0] (brightness and blur, clears)
BloomRenderPass0 ==
    [attachments |-> <<Attachment(UNDEFINED, SHADER_READ_ONLY_OPTIMAL, LOAD_OP_CLEAR)>>,
     subpasses |-> << [color |-> <<Ref(0, COLOR_ATTACHMENT_OPTIMAL)>>,
                       depth |-> <<>>, input |-> <<>>] >>,
     deps |-> {BloomExternalDependency}]

\* createBloomRenderPasses: m_bloomRenderPasses[1] (merge, does not clear)
BloomRenderPass1 ==
    [attachments |-> <<Attachment(SHADER_READ_ONLY_OPTIMAL, SHADER_READ_ONLY_OPTIMAL,
                                  LOAD_OP_LOAD)>>,
     subpasses |-> << [color |-> <<Ref(0, COLOR_ATTACHMENT_OPTIMAL)>>,
                       depth |-> <<>>, input |-> <<>>] >>,
     deps |-> {BloomExternalDependency}]

\* createFinalOutputRenderPass
FinalOutputRenderPass ==
    [attachments |-> <<Attachment(UNDEFINED, PRESENT_SRC_KHR, LOAD_OP_CLEAR)>>,
     subpasses |-> << [color |-> <<Ref(0, COLOR_ATTACHMENT_OPTIMAL)>>,
                       depth |-> <<>>, input |-> <<>>] >>,
     deps |-> { Dependency(EXTERNAL, 0, {COLOR_ATTACHMENT_OUTPUT},
                           {FRAGMENT_SHADER, COLOR_ATTACHMENT_OUTPUT},
                           {COLOR_ATTACHMENT_WRITE},
                           {SHADER_READ, COLOR_ATTACHMENT_READ, COLOR_ATTACHMENT_WRITE}) }]

RenderPassNames ==
    {"m_specEnvPrefilterRenderPass", "m_geomAndLightRenderPass",
     "m_bloomRenderPasses[0]", "m_bloomRenderPasses[1]", "m_finalOutputRenderPass"}

RenderPass(name) ==
    CASE name = "m_specEnvPrefilterRenderPass" -> SpecEnvPrefilterRenderPass
      [] name = "m_geomAndLightRenderPass" -> GeomAndLightRenderPass
      [] name = "m_bloomRenderPasses[0]" -> BloomRenderPass0
      [] name = "m_bloomRenderPasses[1]" -> BloomRenderPass1
      [] name = "m_finalOutputRenderPass" -> FinalOutputRenderPass

(***************************************************************************)
(* Framebuffers, descriptor sets and the recorded command buffers.         *)
(***************************************************************************)
\* createFramebuffers: the image bound to each attachment, in attachment order.
Framebuffer(fb) ==
    CASE fb[1] = "m_diffEnvPrefilterFramebuffer" -> <<DiffuseIrradianceMap>>
      [] fb[1] = "m_specEnvPrefilterFramebuffers" -> <<SpecularIrradianceMap>>
      [] fb[1] = "m_geomAndLightingFramebuffer" ->
            <<DepthImage, GBufferImage(0), GBufferImage(1), GBufferImage(2),
              LightingResultImage>>
      [] fb[1] = "m_postEffectFramebuffers" ->
            IF fb[2] = 0 THEN <<PostEffectImage(0)>>
            ELSE IF fb[2] = 1 THEN <<PostEffectImage(1)>>
            ELSE <<LightingResultImage>>
      [] fb[1] = "m_finalOutputFramebuffers" -> <<SwapChainImage(fb[2])>>

\* The layout ImageWrapper::getDescriptorInfo reports for a sampled image.
DescriptorInfoLayout == SHADER_READ_ONLY_OPTIMAL

Binding(binding, type, image, layout) ==
    [binding |-> binding, type |-> type, image |-> image, layout |-> layout]

\* createLightingPassDescriptorSets: one VkDescriptorImageInfo layout is used
\* for the four input attachments (g-buffers and depth).
LightingInputAttachmentLayout == SHADER_READ_ONLY_OPTIMAL

LightingDescriptorSet ==
    { Binding(1, "INPUT_ATTACHMENT", GBufferImage(0), LightingInputAttachmentLayout),
      Binding(2, "INPUT_ATTACHMENT", GBufferImage(1), LightingInputAttachmentLayout),
      Binding(3, "INPUT_ATTACHMENT", GBufferImage(2), LightingInputAttachmentLayout),
      Binding(4, "INPUT_ATTACHMENT", DepthImage, LightingInputAttachmentLayout),
      Binding(5, "COMBINED_IMAGE_SAMPLER", DiffuseIrradianceMap, DescriptorInfoLayout),
      Binding(6, "COMBINED_IMAGE_SAMPLER", SpecularIrradianceMap, DescriptorInfoLayout),
      Binding(7, "COMBINED_IMAGE_SAMPLER", BakedBrdfImage, DescriptorInfoLayout) }

\* Bloom descriptor sets that sample the post-effect images the other way round.
BloomDescriptorSet_Swapped(i) ==
    { Binding(0, "COMBINED_IMAGE_SAMPLER",
              IF i = 0 THEN LightingResultImage ELSE PostEffectImage(2 - i),
              DescriptorInfoLayout) }

\* createBloomDescriptorSets
BloomDescriptorSet(i) ==
    { Binding(0, "COMBINED_IMAGE_SAMPLER",
              IF i = 0 THEN LightingResultImage ELSE PostEffectImage(i - 1),
              DescriptorInfoLayout) }

\* createFinalOutputPassDescriptorSets
FinalOutputDescriptorSet ==
    { Binding(0, "COMBINED_IMAGE_SAMPLER", LightingResultImage, DescriptorInfoLayout),
      Binding(1, "COMBINED_IMAGE_SAMPLER", GBufferImage(0), DescriptorInfoLayout),
      Binding(2, "COMBINED_IMAGE_SAMPLER", GBufferImage(1), DescriptorInfoLayout),
      Binding(3, "COMBINED_IMAGE_SAMPLER", GBufferImage(2), DescriptorInfoLayout),
      Binding(4, "COMBINED_IMAGE_SAMPLER", DepthImage, DescriptorInfoLayout) }

\* The image bindings of a descriptor set (bindings of images that no modelled
\* operation writes, such as the radiance map and the mesh textures, are left out).
DescriptorSet(set) ==
    CASE set[1] = "m_lightingDescriptorSet" -> LightingDescriptorSet
      [] set[1] = "m_bloomDescriptorSets" -> BloomDescriptorSet(set[2])
      [] set[1] = "m_finalOutputDescriptorSet" -> FinalOutputDescriptorSet
      [] OTHER -> {}

\* One draw: the pipeline bound and the descriptor set bound.
Draw(pipeline, set) == [pipeline |-> pipeline, set |-> set]
\* One subpass of one render pass instance, with the draws recorded in it.
SubpassStep(rp, sub, fb, draws) ==
    [rp |-> rp, sub |-> sub, fb |-> fb, draws |-> draws]

\* The merge pipeline blends additively (createBloomPipelines), so it reads the
\* colour attachment it writes.
BlendEnabled(pipeline) == pipeline = "m_bloomPipelines[2]"

\* createEnvPrefilterCommandBuffer: the diffuse pass, then one pass per mip level.
EnvPrefilterCommandBuffer ==
    << SubpassStep("m_specEnvPrefilterRenderPass", 0, <<"m_diffEnvPrefilterFramebuffer", 0>>,
                   << Draw("m_diffEnvPrefilterPipeline", <<"m_specEnvPrefilterDescriptorSet", 0>>) >>) >>
    \o [level \in 1..SpecMipLevels |->
           SubpassStep("m_specEnvPrefilterRenderPass", 0,
                       <<"m_specEnvPrefilterFramebuffers", level - 1>>,
                       << Draw("m_specEnvPrefilterPipeline",
                               <<"m_specEnvPrefilterDescriptorSet", 0>>) >>)]

\* createGeomAndLightingCommandBuffer: skybox, then every model, next subpass,
\* then the lighting full-screen draw.
GeomAndLightingCommandBuffer ==
    << SubpassStep("m_geomAndLightRenderPass", 0, <<"m_geomAndLightingFramebuffer", 0>>,
                   << Draw("m_skyboxPipeline", <<"m_skyboxDescriptorSet", 0>>) >>
                   \o [j \in 1..NumModels |->
                          Draw("m_geomPipeline", <<"m_geomDescriptorSets", j - 1>>)]),
       SubpassStep("m_geomAndLightRenderPass", 1, <<"m_geomAndLightingFramebuffer", 0>>,
                   << Draw("m_lightingPipeline", <<"m_lightingDescriptorSet", 0>>) >>) >>

\* A blur iteration that records the vertical pass before the horizontal one.
BlurIteration_VerticalFirst ==
    << SubpassStep("m_bloomRenderPasses[0]", 0, <<"m_postEffectFramebuffers", 0>>,
                   << Draw("m_bloomPipelines[1]", <<"m_bloomDescriptorSets", 2>>) >>),
       SubpassStep("m_bloomRenderPasses[0]", 0, <<"m_postEffectFramebuffers", 1>>,
                   << Draw("m_bloomPipelines[1]", <<"m_bloomDescriptorSets", 1>>) >> ) >>

\* The two passes of one blur iteration: horizontal into image 1, vertical into image 0.
BlurIteration ==
    << SubpassStep("m_bloomRenderPasses[0]", 0, <<"m_postEffectFramebuffers", 1>>,
                   << Draw("m_bloomPipelines[1]", <<"m_bloomDescriptorSets", 1>>) >>),
       SubpassStep("m_bloomRenderPasses[0]", 0, <<"m_postEffectFramebuffers", 0>>,
                   << Draw("m_bloomPipelines[1]", <<"m_bloomDescriptorSets", 2>>) >> ) >>

\* createPostEffectCommandBuffer: brightness, the blur iterations, merge.
PostEffectCommandBuffer ==
    << SubpassStep("m_bloomRenderPasses[0]", 0, <<"m_postEffectFramebuffers", 0>>,
                   << Draw("m_bloomPipelines[0]", <<"m_bloomDescriptorSets", 0>>) >>) >>
    \o [k \in 1..(2 * NumBlurIterations) |-> BlurIteration[2 - (k % 2)]]
    \o << SubpassStep("m_bloomRenderPasses[1]", 0, <<"m_postEffectFramebuffers", 2>>,
                      << Draw("m_bloomPipelines[2]", <<"m_bloomDescriptorSets", 1>>) >>) >>

\* createPresentCommandBuffers: one per swapchain image.
PresentCommandBuffer(i) ==
    << SubpassStep("m_finalOutputRenderPass", 0, <<"m_finalOutputFramebuffers", i>>,
                   << Draw("m_finalOutputPipeline", <<"m_finalOutputDescriptorSet", 0>>) >>) >>

\* The steps of a command buffer <<name, index>>.
CommandBuffer(cb) ==
    CASE cb[1] = "m_envPrefilterCommandBuffer" -> EnvPrefilterCommandBuffer
      [] cb[1] = "m_geomAndLightingCommandBuffer" -> GeomAndLightingCommandBuffer
      [] cb[1] = "m_postEffectCommandBuffer" -> PostEffectCommandBuffer
      [] cb[1] = "m_presentCommandBuffers" -> PresentCommandBuffer(cb[2])
      [] OTHER -> <<>>

(***************************************************************************)
(* What the declared synchronization orders: execution and memory          *)
(* dependencies, per image.  The state kept for an image is its layout,    *)
(* its latest write (with the accesses that write has been made visible    *)
(* to, and the stages a dependency chain from it has reached) and the      *)
(* reads since that write (each with the stages ordered after it).         *)
(***************************************************************************)
\* The dependencies Vulkan adds when none is declared to or from EXTERNAL.
ImplicitExternalIn(k) ==
    Dependency(EXTERNAL, k, {TOP_OF_PIPE}, GraphicsStages, {}, AttachmentAccesses)
ImplicitExternalOut(k) ==
    Dependency(k, EXTERNAL, GraphicsStages, {BOTTOM_OF_PIPE}, AttachmentAccesses, {})

ExternalIn(rp, k) ==
    LET declared == {d \in rp.deps : d.src = EXTERNAL /\ d.dst = k}
    IN  IF declared = {} THEN {ImplicitExternalIn(k)} ELSE declared
ExternalOut(rp, k) ==
    LET declared == {d \in rp.deps : d.src = k /\ d.dst = EXTERNAL}
    IN  IF declared = {} THEN {ImplicitExternalOut(k)} ELSE declared
SubpassIn(rp, k) == {d \in rp.deps : d.dst = k /\ d.src # EXTERNAL}

\* A semaphore wait with wait stage COLOR_ATTACHMENT_OUTPUT: everything the
\* signalling batch did is ordered before, and visible to, that stage and later.
SemaphoreWaitDependency ==
    Dependency(EXTERNAL, EXTERNAL, GraphicsStages, {COLOR_ATTACHMENT_OUTPUT},
               AllAccesses, AllAccesses)

SubpassRefs(sp) == sp.color \o sp.depth \o sp.input
UsedIn(rp, k, a) ==
    \E i \in DOMAIN SubpassRefs(rp.subpasses[k + 1]) :
        SubpassRefs(rp.subpasses[k + 1])[i].att = a
Subpasses(rp) == 0..(Len(rp.subpasses) - 1)
FirstUse(rp, a) ==
    CHOOSE k \in Subpasses(rp) :
        UsedIn(rp, k, a) /\ \A j \in Subpasses(rp) : j < k => ~UsedIn(rp, j, a)
LastUse(rp, a) ==
    CHOOSE k \in Subpasses(rp) :
        UsedIn(rp, k, a) /\ \A j \in Subpasses(rp) : j > k => ~UsedIn(rp, j, a)
RefLayout(rp, k, a) ==
    LET refs == SubpassRefs(rp.subpasses[k + 1])
    IN  refs[CHOOSE i \in DOMAIN refs : refs[i].att = a].layout

\* The attachment numbers under which a step's framebuffer binds an image.
AttOf(step, img) ==
    {a \in 0..(Len(Framebuffer(step.fb)) - 1) : Framebuffer(step.fb)[a + 1] = img}

NoAccess(layout) ==
    [layout |-> layout, w |-> FALSE, wSub |-> EXTERNAL, wStage |-> "none",
     wAccess |-> "none", wBar |-> {}, wChain |-> {}, reads |-> {}]

WriteInScope(st, d) ==
    /\ st.w
    /\ \/ st.wSub = d.src /\ <<st.wStage, st.wAccess>> \in d.firstAccess
       \/ st.wChain \cap d.srcExec # {}
ReadInScope(r, d) ==
    \/ r.sub = d.src /\ r.stage \in d.srcExec
    \/ r.bar \cap d.srcExec # {}

\* The effect of a set of dependencies on what is known about an image.
ApplyBarriers(st, deps) ==
    IF ~st.w /\ st.reads = {} THEN st
    ELSE LET wd == {d \in deps : WriteInScope(st, d)}
         IN  [st EXCEPT
                 !.wBar = @ \cup UNION {d.secondAccess : d \in wd},
                 !.wChain = @ \cup UNION {d.dstExec : d \in wd},
                 !.reads = {[r EXCEPT !.bar = @ \cup UNION {d.dstExec :
                                               d \in {e \in deps : ReadInScope(r, e)}}] :
                            r \in st.reads}]

\* A layout transition is a write, ordered and made visible by `deps`.
Transition(deps, layout, sub) ==
    [layout |-> layout, w |-> TRUE, wSub |-> sub, wStage |-> "TRANSITION",
     wAccess |-> "LAYOUT_TRANSITION",
     wBar |-> UNION {d.secondAccess : d \in deps},
     wChain |-> UNION {d.dstExec : d \in deps}, reads |-> {}]
TransitionHazard(st, deps) ==
    IF st.reads # {}
    THEN IF \E r \in st.reads : \A d \in deps : ~ReadInScope(r, d)
         THEN "WRITE_AFTER_READ" ELSE "none"
    ELSE IF st.w /\ \A d \in deps : ~WriteInScope(st, d)
         THEN "WRITE_AFTER_WRITE" ELSE "none"

ReadHazard(st, stage, access) ==
    IF st.w /\ <<stage, access>> \notin st.wBar THEN "READ_AFTER_WRITE" ELSE "none"
WriteHazard(st, stage, access) ==
    IF \E r \in st.reads : stage \notin r.bar THEN "WRITE_AFTER_READ"
    ELSE IF st.reads = {} /\ st.w /\ <<stage, access>> \notin st.wBar
         THEN "WRITE_AFTER_WRITE" ELSE "none"

\* A semaphore wait orders and makes visible everything done before the signal.
ApplySemaphoreWait(st) ==
    IF ~st.w /\ st.reads = {} THEN st
    ELSE LET d == SemaphoreWaitDependency
         IN  [st EXCEPT
                 !.wBar = IF st.w THEN @ \cup d.secondAccess ELSE @,
                 !.wChain = IF st.w THEN @ \cup d.dstExec ELSE @,
                 !.reads = {[r EXCEPT !.bar = @ \cup d.dstExec] : r \in st.reads}]

\* When a render pass instance ends, its accesses become accesses of "before".
Externalize(st) ==
    [st EXCEPT !.wSub = EXTERNAL,
               !.reads = {[r EXCEPT !.sub = EXTERNAL] : r \in st.reads}]

(***************************************************************************)
(* The accesses one recorded subpass makes to an image.                    *)
(***************************************************************************)
StepBindings(step) ==
    UNION {DescriptorSet(step.draws[j].set) : j \in DOMAIN step.draws}

StepReads(step, img) ==
    LET rp == RenderPass(step.rp)
        sp == rp.subpasses[step.sub + 1]
        atts == AttOf(step, img)
        blends == \E j \in DOMAIN step.draws : BlendEnabled(step.draws[j].pipeline)
        loads(a) == rp.attachments[a + 1].loadOp = LOAD_OP_LOAD /\ FirstUse(rp, a) = step.sub
    IN  {<<COLOR_ATTACHMENT_OUTPUT, COLOR_ATTACHMENT_READ>> :
            i \in {i \in DOMAIN sp.color :
                      sp.color[i].att \in atts /\ (blends \/ loads(sp.color[i].att))}}
        \cup {<<EARLY_FRAGMENT_TESTS, DEPTH_STENCIL_ATTACHMENT_READ>> :
                i \in {i \in DOMAIN sp.depth : sp.depth[i].att \in atts}}
        \cup {<<FRAGMENT_SHADER, INPUT_ATTACHMENT_READ>> :
                i \in {i \in DOMAIN sp.input : sp.input[i].att \in atts}}
        \cup {<<FRAGMENT_SHADER, SHADER_READ>> :
                b \in {b \in StepBindings(step) :
                          b.type = "COMBINED_IMAGE_SAMPLER" /\ b.image = img}}

\* Depth writes happen in the early or in the late fragment tests: `dws`.
DepthWriteStages == {EARLY_FRAGMENT_TESTS, LATE_FRAGMENT_TESTS}

StepWrites(step, img, dws) ==
    LET sp == RenderPass(step.rp).subpasses[step.sub + 1]
        atts == AttOf(step, img)
    IN  {<<COLOR_ATTACHMENT_OUTPUT, COLOR_ATTACHMENT_WRITE>> :
            i \in {i \in DOMAIN sp.color : sp.color[i].att \in atts}}
        \cup {<<dws, DEPTH_STENCIL_ATTACHMENT_WRITE>> :
                i \in {i \in DOMAIN sp.depth :
                          /\ sp.depth[i].att \in atts
                          /\ sp.depth[i].layout = DEPTH_STENCIL_ATTACHMENT_OPTIMAL}}

Hazard(kind, img, rp, sub, op) ==
    [kind |-> kind, image |-> img, rp |-> rp, sub |-> sub, op |-> op]
LayoutError(kind, img, declared, actual) ==
    [kind |-> kind, image |-> img, declared |-> declared, actual |-> actual]

\* Everything about one recorded subpass and one image that is fixed at
\* recording time: the dependencies into the subpass, the layouts declared
\* for the image, the accesses made to it, the dependencies out of the pass.
ImagePlan(step, img) ==
    LET rp == RenderPass(step.rp)
        atts == AttOf(step, img)
        usedAtts == {a \in atts : UsedIn(rp, step.sub, a)}
        firstHere == \E a \in usedAtts : FirstUse(rp, a) = step.sub
        in == IF step.sub = 0 THEN ExternalIn(rp, 0) ELSE SubpassIn(rp, step.sub)
    IN  [rp |-> step.rp, sub |-> step.sub,
         used |-> usedAtts # {},
         firstHere |-> firstHere,
         in |-> in,
         tdeps |-> IF firstHere THEN ExternalIn(rp, step.sub) ELSE in,
         initial |-> {rp.attachments[a + 1].initial : a \in usedAtts},
         target |-> {RefLayout(rp, step.sub, a) : a \in usedAtts},
         reads |-> StepReads(step, img),
         writes |-> [dws \in DepthWriteStages |-> StepWrites(step, img, dws)],
         bindings |-> {b \in StepBindings(step) : b.image = img},
         last |-> step.sub = Len(rp.subpasses) - 1,
         odeps |-> IF atts # {}
                   THEN UNION {ExternalOut(rp, LastUse(rp, a)) : a \in atts}
                   ELSE {d \in rp.deps : d.dst = EXTERNAL},
         final |-> {rp.attachments[a + 1].final : a \in atts}]

(***************************************************************************)
(* Executing one recorded subpass: the dependencies into it, the layout    *)
(* transitions, its accesses and, after the last subpass, the dependencies *)
(* out of the render pass and the transitions to the final layouts.        *)
(***************************************************************************)
ExecImage(st, img, p, dws) ==
    LET initErr == IF p.firstHere
                   THEN {LayoutError("initialLayout", img, l, st.layout) :
                            l \in {l \in p.initial : l \notin {UNDEFINED, st.layout}}}
                   ELSE {}
        transitions == /\ p.used
                       /\ IF p.firstHere THEN p.initial # p.target
                          ELSE {st.layout} # p.target
        st1 == IF transitions
               THEN Transition(p.tdeps, CHOOSE l \in p.target : TRUE, p.sub)
               ELSE ApplyBarriers(st, p.in \cup p.tdeps)
        hzT == IF transitions THEN {TransitionHazard(st, p.tdeps)} ELSE {}
        writes == p.writes[dws]
        hzR == {ReadHazard(st1, x[1], x[2]) : x \in p.reads}
        hzW == {WriteHazard(st1, x[1], x[2]) : x \in writes}
        st2 == IF writes # {}
               THEN LET x == CHOOSE x \in writes : TRUE
                    IN  [layout |-> st1.layout, w |-> TRUE, wSub |-> p.sub,
                         wStage |-> x[1], wAccess |-> x[2], wBar |-> {}, wChain |-> {},
                         reads |-> {}]
               ELSE IF p.reads = {} THEN st1
               ELSE [st1 EXCEPT !.reads = @ \cup
                        {[stage |-> x[1], access |-> x[2], sub |-> p.sub, bar |-> {}] :
                            x \in p.reads}]
        descErr == {LayoutError(b.type, img, b.layout, st1.layout) :
                       b \in {b \in p.bindings : b.layout # st1.layout}}
        finalTransition == p.final # {} /\ st2.layout \notin p.final
        hzF == IF p.last /\ finalTransition THEN {TransitionHazard(st2, p.odeps)} ELSE {}
        st3 == IF ~p.last THEN st2
               ELSE IF finalTransition
                    THEN Transition(p.odeps, CHOOSE l \in p.final : TRUE, EXTERNAL)
                    ELSE Externalize(ApplyBarriers(st2, p.odeps))
    IN  [st |-> st3,
         hazards |-> {Hazard(k, img, p.rp, p.sub, "transition") : k \in hzT \ {"none"}}
                     \cup {Hazard(k, img, p.rp, p.sub, "access") :
                              k \in (hzR \cup hzW) \ {"none"}}
                     \cup {Hazard(k, img, p.rp, p.sub, "finalTransition") :
                              k \in hzF \ {"none"}},
         layoutErrors |-> initErr \cup descErr]

\* transitionImageLayout(old, new): a blocking helper; the image ends in `new`.
TransitionImageLayout(st, img, old, new) ==
    [st |-> NoAccess(new),
     layoutErrors |-> IF st.layout = old THEN {}
                      ELSE {LayoutError("oldLayout", img, old, st.layout)}]

\* Every command buffer the renderer records, and per recorded subpass and
\* image what was fixed at recording time.
AllCommandBuffers ==
    {<<"m_envPrefilterCommandBuffer", 0>>, <<"m_geomAndLightingCommandBuffer", 0>>,
     <<"m_postEffectCommandBuffer", 0>>}
    \cup {<<"m_presentCommandBuffers", i>> : i \in 0..(NumSwapImages - 1)}
StepCount == [cb \in AllCommandBuffers |-> Len(CommandBuffer(cb))]
StepPlan ==
    [x \in UNION {{<<cb, k, i>> : k \in 1..Len(CommandBuffer(cb)), i \in Images} :
                     cb \in AllCommandBuffers} |->
        ImagePlan(CommandBuffer(x[1])[x[2]], x[3])]
StepFramebuffer ==
    [x \in UNION {{<<cb, k>> : k \in 1..Len(CommandBuffer(cb))} : cb \in AllCommandBuffers} |->
        CommandBuffer(x[1])[x[2]].fb]
\* The recorded subpasses that write depth.
StepWritesDepth ==
    [x \in DOMAIN StepFramebuffer |->
        \E i \in Images : \E w \in StepPlan[<<x[1], x[2], i>>].writes[EARLY_FRAGMENT_TESTS] :
            w[2] = DEPTH_STENCIL_ATTACHMENT_WRITE]

ExecStep(images, cb, k, dws) ==
    [i \in Images |-> ExecImage(images[i], i, StepPlan[<<cb, k, i>>], dws)]

(***************************************************************************)
(* drawFrame: the decisions taken on the results, and the three batches.   *)
(***************************************************************************)
\* A drawFrame that renders into a swapchain reported out of date.
AcquireOutcome_OutOfDateProceeds(result) ==
    IF result # VK_SUCCESS /\ result # VK_SUBOPTIMAL_KHR
          /\ result # VK_ERROR_OUT_OF_DATE_KHR THEN "throw"
    ELSE "proceed"

\* A drawFrame that treats a suboptimal acquisition like an out-of-date one.
AcquireOutcome_SuboptimalSkips(result) ==
    IF result = VK_ERROR_OUT_OF_DATE_KHR \/ result = VK_SUBOPTIMAL_KHR THEN "recreate"
    ELSE IF result # VK_SUCCESS THEN "throw"
    ELSE "proceed"

\* What drawFrame does with the result of swapChainNextImageIndex.
AcquireOutcome(result) ==
    IF result = VK_ERROR_OUT_OF_DATE_KHR THEN "recreate"
    ELSE IF result # VK_SUCCESS /\ result # VK_SUBOPTIMAL_KHR THEN "throw"
    ELSE "proceed"

\* A drawFrame that recovers only from an out-of-date present.
PresentOutcome_SuboptimalThrows(result) ==
    IF result = VK_ERROR_OUT_OF_DATE_KHR THEN "recreate"
    ELSE IF result # VK_SUCCESS THEN "throw"
    ELSE "return"

\* A drawFrame that ignores a failed present.
PresentOutcome_NeverThrows(result) ==
    IF result = VK_ERROR_OUT_OF_DATE_KHR \/ result = VK_SUBOPTIMAL_KHR THEN "recreate"
    ELSE "return"

\* What drawFrame does with the result of queuePresent.
PresentOutcome(result) ==
    IF result = VK_ERROR_OUT_OF_DATE_KHR \/ result = VK_SUBOPTIMAL_KHR THEN "recreate"
    ELSE IF result # VK_SUCCESS THEN "throw"
    ELSE "return"

\* Submissions that always end with the present command buffer of image 0.
FrameBatches_FirstImage(f, idx) ==
    << [kind |-> "geom", frame |-> f, cb |-> <<"m_geomAndLightingCommandBuffer", 0>>,
        wait |-> "m_imageAvailableSemaphore",
        signal |-> "m_geomAndLightingCompleteSemaphore", fence |-> "none"],
       [kind |-> "post", frame |-> f, cb |-> <<"m_postEffectCommandBuffer", 0>>,
        wait |-> "m_geomAndLightingCompleteSemaphore",
        signal |-> "m_postEffectSemaphore", fence |-> "none"],
       [kind |-> "final", frame |-> f, cb |-> <<"m_presentCommandBuffers", 0>>,
        wait |-> "m_postEffectSemaphore",
        signal |-> "m_finalOutputFinishedSemaphore", fence |-> "none"] >>

\* The submissions drawFrame adds between beginQueueSubmit and endQueueSubmit.
FrameBatches(f, idx) ==
    << [kind |-> "geom", frame |-> f, cb |-> <<"m_geomAndLightingCommandBuffer", 0>>,
        wait |-> "m_imageAvailableSemaphore",
        signal |-> "m_geomAndLightingCompleteSemaphore", fence |-> "none"],
       [kind |-> "post", frame |-> f, cb |-> <<"m_postEffectCommandBuffer", 0>>,
        wait |-> "m_geomAndLightingCompleteSemaphore",
        signal |-> "m_postEffectSemaphore", fence |-> "none"],
       [kind |-> "final", frame |-> f, cb |-> <<"m_presentCommandBuffers", idx>>,
        wait |-> "m_postEffectSemaphore",
        signal |-> "m_finalOutputFinishedSemaphore", fence |-> "none"] >>

\* What drawFrame does with a failure of endQueueSubmit: a failed submission
\* is fatal.
EndQueueSubmitOutcome(result) ==
    IF result # VK_SUCCESS THEN "throw" ELSE "proceed"

\* The semaphores drawFrame hands to queuePresent.
PresentWaits == <<"m_finalOutputFinishedSemaphore">>

(***************************************************************************)
(* The precomputed artifacts and their cache files.                        *)
(***************************************************************************)
Artifacts == {"brdfLut", "diffuseMap", "specularMap"}

\* The image an artifact lives in.
ArtifactImage(a) ==
    CASE a = "brdfLut" -> BakedBrdfImage
      [] a = "diffuseMap" -> DiffuseIrradianceMap
      [] a = "specularMap" -> SpecularIrradianceMap

\* A command buffer recording that ignores the ready flag.
BrdfLutCommandsRecorded_Always(brdfReady) == {"brdfLut"}

\* createBrdfLutCommandBuffer returns before recording anything when the
\* BRDF LUT is ready, else records the dispatch that computes it.
BrdfLutCommandsRecorded(brdfReady) ==
    IF brdfReady THEN {} ELSE {"brdfLut"}

\* A recording that is skipped as soon as one of the irradiance maps is ready.
EnvPrefilterCommandsRecorded_EitherReady(diffReady, specReady) ==
    IF diffReady \/ specReady THEN {} ELSE {"diffuseMap", "specularMap"}

\* createEnvPrefilterCommandBuffer returns before recording anything only when
\* both irradiance maps are ready, else records the diffuse pass and then the
\* specular pass of every mip level.
EnvPrefilterCommandsRecorded(diffReady, specReady) ==
    IF diffReady /\ specReady THEN {} ELSE {"diffuseMap", "specularMap"}

\* A save that writes every artifact.
ArtifactsToSave_All(saveBrdf, saveDiff, saveSpec) == Artifacts

\* savePrecomputationResults reads back and writes the artifacts whose save
\* flag is set.
ArtifactsToSave(saveBrdf, saveDiff, saveSpec) ==
    (IF saveBrdf THEN {"brdfLut"} ELSE {})
    \cup (IF saveDiff THEN {"diffuseMap"} ELSE {})
    \cup (IF saveSpec THEN {"specularMap"} ELSE {})

\* No construction step is under study: the renderer runs.
NoCalc == [op |-> "none"]

\* The renderer and the device after construction, before run().
RunInit ==
    /\ pc = "initVulkan"
    /\ raised = "none"
    /\ frame = 0
    /\ imageIndex = 0
    /\ acqResult = "none"
    /\ subResult = "none"
    /\ presResult = "none"
    /\ frameSubmits = <<>>
    /\ framePresent = <<>>
    /\ frameRecreates = 0
    /\ m_bakedBrdfReady = FALSE
    /\ diffMapReady = FALSE
    /\ specMapReady = FALSE
    /\ m_shouldSaveBakedBrdf = FALSE
    /\ shouldSaveDiffMap = FALSE
    /\ shouldSaveSpecMap = FALSE
    /\ fences = <<>>
    /\ fenceSignaled = [f \in Fences |-> FALSE]
    /\ sem = [s \in Semaphores |-> FALSE]
    /\ acqPending = {}
    /\ computeQueue = <<>>
    /\ gfxQueue = <<>>
    /\ gpuStep = 0
    /\ semSignaler = [s \in Semaphores |-> <<0, "none">>]
    /\ started = {}
    /\ finished = {}
    /\ presented = {}
    /\ uniformWriting = FALSE
    /\ imgs = [i \in Images |-> NoAccess(UNDEFINED)]
    /\ hazards = {}
    /\ layoutErrors = {}
    /\ cacheFiles = {}
    /\ recorded = {}
    /\ savedToDisk = {}

Init ==
    /\ RunInit
    /\ calc = NoCalc

(***************************************************************************)
(* The CPU thread: run().                                                  *)
(***************************************************************************)
Throw(message) ==
    /\ raised' = message
    /\ pc' = "crashed"

\* initVulkan, as far as the cache flags and the images' first layouts go.
\* createComputeResources: the BRDF LUT is loaded if its file exists, else an
\* image in GENERAL is created and marked for saving; Skybox::load does the
\* same per irradiance map; createDepthResources leaves depth in
\* DEPTH_STENCIL_ATTACHMENT_OPTIMAL.
InitVulkan ==
    /\ pc = "initVulkan"
    /\ \E brdfFile, diffFile, specFile \in BOOLEAN :
        /\ m_bakedBrdfReady' = brdfFile
        /\ m_shouldSaveBakedBrdf' = ~brdfFile
        /\ diffMapReady' = diffFile
        /\ shouldSaveDiffMap' = ~diffFile
        /\ specMapReady' = specFile
        /\ shouldSaveSpecMap' = ~specFile
        /\ imgs' = [i \in Images |->
                      CASE i = DepthImage -> NoAccess(DEPTH_STENCIL_ATTACHMENT_OPTIMAL)
                        [] i = BakedBrdfImage ->
                              NoAccess(IF brdfFile THEN SHADER_READ_ONLY_OPTIMAL ELSE GENERAL)
                        [] i = DiffuseIrradianceMap ->
                              NoAccess(IF diffFile THEN SHADER_READ_ONLY_OPTIMAL ELSE UNDEFINED)
                        [] i = SpecularIrradianceMap ->
                              NoAccess(IF specFile THEN SHADER_READ_ONLY_OPTIMAL ELSE UNDEFINED)
                        [] OTHER -> NoAccess(UNDEFINED)]
        /\ cacheFiles' = (IF brdfFile THEN {"brdfLut"} ELSE {})
                          \cup (IF diffFile THEN {"diffuseMap"} ELSE {})
                          \cup (IF specFile THEN {"specularMap"} ELSE {})
        /\ recorded' = BrdfLutCommandsRecorded(brdfFile)
                        \cup EnvPrefilterCommandsRecorded(diffFile, specFile)
    /\ pc' = "pre_update"
    /\ UNCHANGED <<savedToDisk, calc>>
    /\ UNCHANGED <<raised, frameVars, subResult, fences, uniformWriting, gpuVars,
                   hazards, layoutErrors>>

\* updateUniformBuffers up to the memcpy into the mapped buffer.
UpdateUniformBuffers_Map ==
    /\ pc \in {"pre_update", "loop_update"}
    /\ uniformWriting' = TRUE
    /\ pc' = IF pc = "pre_update" THEN "pre_updating" ELSE "loop_updating"
    /\ UNCHANGED <<raised, frameVars, subResult, cacheVars, fences, gpuVars, imageVars>>
    /\ UNCHANGED setupVars

\* The memcpy is done and the buffer unmapped.
UpdateUniformBuffers_Unmap ==
    /\ pc \in {"pre_updating", "loop_updating"}
    /\ uniformWriting' = FALSE
    /\ pc' = IF pc = "pre_updating" THEN "pre_brdf" ELSE "acquire"
    /\ UNCHANGED <<raised, frameVars, subResult, cacheVars, fences, gpuVars, imageVars>>
    /\ UNCHANGED setupVars

BrdfLutBatch ==
    [kind |-> "brdf", frame |-> 0, cb |-> <<"m_brdfLutCommandBuffer", 0>>,
     wait |-> "none", signal |-> "none", fence |-> "m_brdfLutFence"]
EnvPrefilterBatch ==
    [kind |-> "prefilter", frame |-> 0, cb |-> <<"m_envPrefilterCommandBuffer", 0>>,
     wait |-> "none", signal |-> "none", fence |-> "m_envPrefilterFence"]

\* prefilterEnvironmentAndComputeBrdfLut: bake the BRDF terms.
Precompute_SubmitBrdfLut ==
    /\ pc = "pre_brdf"
    /\ IF ~m_bakedBrdfReady
       THEN \E result \in SubmitResults :
               /\ subResult' = result
               /\ IF result # VK_SUCCESS
                  THEN /\ Throw("failed to submit brdf lut command buffer.")
                       /\ UNCHANGED <<computeQueue, fences>>
                  ELSE /\ computeQueue' = Append(computeQueue, BrdfLutBatch)
                       /\ fences' = Append(fences, "m_brdfLutFence")
                       /\ pc' = "pre_env"
                       /\ UNCHANGED raised
       ELSE /\ pc' = "pre_env"
            /\ UNCHANGED <<raised, subResult, computeQueue, fences>>
    /\ UNCHANGED <<frameVars, cacheVars, uniformWriting, fenceSignaled, sem, acqPending,
                   gfxQueue, gpuStep, semSignaler, started, finished, presented, imageVars>>
    /\ UNCHANGED setupVars

\* prefilterEnvironmentAndComputeBrdfLut: prefilter the radiance map.
Precompute_SubmitEnvPrefilter ==
    /\ pc = "pre_env"
    /\ IF ~diffMapReady \/ ~specMapReady
       THEN \E result \in SubmitResults :
               /\ subResult' = result
               /\ IF result # VK_SUCCESS
                  THEN /\ Throw("failed to submit environment prefilter command buffer.")
                       /\ UNCHANGED <<gfxQueue, fences>>
                  ELSE /\ gfxQueue' = Append(gfxQueue, EnvPrefilterBatch)
                       /\ fences' = Append(fences, "m_envPrefilterFence")
                       /\ pc' = "pre_wait"
                       /\ UNCHANGED raised
       ELSE /\ pc' = "pre_wait"
            /\ UNCHANGED <<raised, subResult, gfxQueue, fences>>
    /\ UNCHANGED <<frameVars, cacheVars, uniformWriting, fenceSignaled, sem, acqPending,
                   computeQueue, gpuStep, semSignaler, started, finished, presented, imageVars>>
    /\ UNCHANGED setupVars

FenceSet == {fences[i] : i \in DOMAIN fences}

\* A wait that returns without any fence having signaled.
FencesToWaitFor_None == {}

\* The fences handed to vkWaitForFences (wait-all).
FencesToWaitFor == FenceSet

\* vkWaitForFences on every submitted fence (wait-all, unbounded), vkResetFences.
\* What the waited-for jobs wrote is complete once the wait returns.
Precompute_WaitForFences ==
    /\ pc = "pre_wait"
    /\ IF Len(fences) > 0
       THEN /\ \A f \in FencesToWaitFor : fenceSignaled[f]
            /\ fenceSignaled' = [f \in Fences |-> IF f \in FenceSet THEN FALSE
                                                   ELSE fenceSignaled[f]]
            /\ imgs' = [i \in Images |-> NoAccess(imgs[i].layout)]
            /\ pc' = "pre_transition"
       ELSE /\ pc' = "loop"
            /\ UNCHANGED <<fenceSignaled, imgs>>
    /\ UNCHANGED <<raised, frameVars, subResult, cacheVars, fences, uniformWriting, sem,
                   acqPending, computeQueue, gfxQueue, gpuStep, semSignaler, started,
                   finished, presented, hazards, layoutErrors>>
    /\ UNCHANGED setupVars

\* The layout transitions of what was computed, to SHADER_READ_ONLY_OPTIMAL.
Precompute_Transition ==
    /\ pc = "pre_transition"
    /\ LET brdf == TransitionImageLayout(imgs[BakedBrdfImage], BakedBrdfImage,
                                         GENERAL, SHADER_READ_ONLY_OPTIMAL)
           diff == TransitionImageLayout(imgs[DiffuseIrradianceMap], DiffuseIrradianceMap,
                                         COLOR_ATTACHMENT_OPTIMAL, SHADER_READ_ONLY_OPTIMAL)
           spec == TransitionImageLayout(imgs[SpecularIrradianceMap], SpecularIrradianceMap,
                                         COLOR_ATTACHMENT_OPTIMAL, SHADER_READ_ONLY_OPTIMAL)
       IN  /\ imgs' = [i \in Images |->
                         IF i = BakedBrdfImage /\ ~m_bakedBrdfReady THEN brdf.st
                         ELSE IF i = DiffuseIrradianceMap /\ ~diffMapReady THEN diff.st
                         ELSE IF i = SpecularIrradianceMap /\ ~specMapReady THEN spec.st
                         ELSE imgs[i]]
           /\ layoutErrors' =
                  (IF ~m_bakedBrdfReady THEN brdf.layoutErrors ELSE {})
                  \cup (IF ~diffMapReady THEN diff.layoutErrors ELSE {})
                  \cup (IF ~specMapReady THEN spec.layoutErrors ELSE {})
    /\ m_bakedBrdfReady' = TRUE
    /\ pc' = "loop"
    /\ UNCHANGED <<raised, frameVars, subResult, diffMapReady, specMapReady,
                   m_shouldSaveBakedBrdf, shouldSaveDiffMap, shouldSaveSpecMap, fences,
                   uniformWriting, gpuVars, hazards>>
    /\ UNCHANGED setupVars

(***************************************************************************)
(* The frame loop.                                                         *)
(***************************************************************************)
\* mainLoop: while the window stays open, updateUniformBuffers then drawFrame.
MainLoop_Iterate ==
    /\ pc = "loop"
    /\ frame < MaxFrames
    /\ frame' = frame + 1
    /\ acqResult' = "none"
    /\ presResult' = "none"
    /\ frameSubmits' = <<>>
    /\ framePresent' = <<>>
    /\ frameRecreates' = 0
    /\ pc' = "loop_update"
    /\ UNCHANGED <<raised, imageIndex, subResult, cacheVars, fences, uniformWriting,
                   gpuVars, imageVars>>
    /\ UNCHANGED setupVars

\* mainLoop: the window was closed.
MainLoop_Exit ==
    /\ pc = "loop"
    /\ pc' = "save"
    /\ UNCHANGED <<raised, frameVars, subResult, cacheVars, fences, uniformWriting,
                   gpuVars, imageVars>>
    /\ UNCHANGED setupVars

\* drawFrame: swapChainNextImageIndex and the branch on its result.
DrawFrame_Acquire ==
    /\ pc = "acquire"
    /\ \E result \in AcquireResults, idx \in 0..(NumSwapImages - 1) :
        /\ acqResult' = result
        /\ CASE AcquireOutcome(result) = "recreate" ->
                  /\ pc' = "recreate"
                  /\ UNCHANGED <<raised, imageIndex, acqPending>>
             [] AcquireOutcome(result) = "throw" ->
                  /\ Throw("failed to acquire swap chain image!")
                  /\ UNCHANGED <<imageIndex, acqPending>>
             [] AcquireOutcome(result) = "proceed" ->
                  /\ imageIndex' = idx
                  /\ acqPending' = acqPending \cup {frame}
                  /\ pc' = "submit"
                  /\ UNCHANGED raised
    /\ UNCHANGED <<frame, presResult, frameSubmits, framePresent, frameRecreates,
                   subResult, cacheVars, fences, uniformWriting, fenceSignaled, sem,
                   computeQueue, gfxQueue, gpuStep, semSignaler, started, finished,
                   presented, imageVars>>
    /\ UNCHANGED setupVars

\* drawFrame: beginQueueSubmit, the three queueSubmitNewSubmit, endQueueSubmit.
DrawFrame_Submit ==
    /\ pc = "submit"
    /\ \E result \in SubmitResults :
        /\ subResult' = result
        /\ IF EndQueueSubmitOutcome(result) = "proceed"
           THEN /\ gfxQueue' = gfxQueue \o FrameBatches(frame, imageIndex)
                /\ frameSubmits' = FrameBatches(frame, imageIndex)
                /\ pc' = "present"
                /\ UNCHANGED raised
           ELSE /\ Throw("failed to submit command buffers!")
                /\ UNCHANGED <<gfxQueue, frameSubmits>>
    /\ UNCHANGED <<frame, imageIndex, acqResult, presResult, framePresent,
                   frameRecreates, cacheVars, fences, uniformWriting, fenceSignaled, sem,
                   acqPending, computeQueue, gpuStep, semSignaler, started, finished,
                   presented, imageVars>>
    /\ UNCHANGED setupVars

\* The queue operation of a present request; a request the presentation engine
\* rejects as out of date still executes its semaphore wait.
PresentRequest(f, idx, result) ==
    [kind |-> IF result = VK_ERROR_OUT_OF_DATE_KHR THEN "presentRejected" ELSE "present",
     frame |-> f, cb |-> <<"vkQueuePresentKHR", idx>>, wait |-> PresentWaits[1],
     signal |-> "none", fence |-> "none"]

\* drawFrame: queuePresent and the branch on its result.
DrawFrame_Present ==
    /\ pc = "present"
    /\ \E result \in PresentResults :
        /\ presResult' = result
        /\ framePresent' = PresentWaits
        /\ gfxQueue' = IF result \in {VK_SUCCESS, VK_SUBOPTIMAL_KHR, VK_ERROR_OUT_OF_DATE_KHR}
                       THEN Append(gfxQueue, PresentRequest(frame, imageIndex, result))
                       ELSE gfxQueue
        /\ CASE PresentOutcome(result) = "recreate" ->
                  /\ pc' = "recreate"
                  /\ UNCHANGED raised
             [] PresentOutcome(result) = "throw" ->
                  Throw("failed to present swap chain image!")
             [] PresentOutcome(result) = "return" ->
                  /\ pc' = "loop"
                  /\ UNCHANGED raised
    /\ UNCHANGED <<frame, imageIndex, acqResult, frameSubmits, frameRecreates, subResult,
                   cacheVars, fences, uniformWriting, fenceSignaled, sem, acqPending,
                   computeQueue, gpuStep, semSignaler, started, finished, presented, imageVars>>
    /\ UNCHANGED setupVars

DeviceIdle == gfxQueue = <<>> /\ computeQueue = <<>>

\* recreateSwapChain: waits for the device to be idle, then recreates every
\* swapchain-dependent resource; drawFrame returns to the loop afterwards.
RecreateSwapChain ==
    /\ pc = "recreate"
    /\ DeviceIdle
    /\ frameRecreates' = frameRecreates + 1
    /\ imgs' = [i \in Images |->
                  IF i = DepthImage THEN NoAccess(DEPTH_STENCIL_ATTACHMENT_OPTIMAL)
                  ELSE IF i \in SwapChainDependentImages THEN NoAccess(UNDEFINED)
                  ELSE imgs[i]]
    /\ pc' = "loop"
    /\ UNCHANGED <<raised, frame, imageIndex, acqResult, presResult, frameSubmits,
                   framePresent, subResult, cacheVars, fences, uniformWriting, gpuVars,
                   hazards, layoutErrors>>
    /\ UNCHANGED setupVars

(***************************************************************************)
(* Shutdown.                                                               *)
(***************************************************************************)
\* savePrecomputationResults: per artifact marked for saving, the transition
\* to TRANSFER_SRC_OPTIMAL, the copy to a staging buffer, the read-back and
\* the write to disk.  transitionImageLayout and copyImageToBuffer are blocking
\* helpers on the graphics queue: they return once the queue has run them.
SavePrecomputationResults ==
    /\ pc = "save"
    /\ (m_shouldSaveBakedBrdf \/ shouldSaveDiffMap \/ shouldSaveSpecMap) => gfxQueue = <<>>
    /\ LET brdf == TransitionImageLayout(imgs[BakedBrdfImage], BakedBrdfImage,
                                         SHADER_READ_ONLY_OPTIMAL, TRANSFER_SRC_OPTIMAL)
           diff == TransitionImageLayout(imgs[DiffuseIrradianceMap], DiffuseIrradianceMap,
                                         SHADER_READ_ONLY_OPTIMAL, TRANSFER_SRC_OPTIMAL)
           spec == TransitionImageLayout(imgs[SpecularIrradianceMap], SpecularIrradianceMap,
                                         SHADER_READ_ONLY_OPTIMAL, TRANSFER_SRC_OPTIMAL)
       IN  /\ imgs' = [i \in Images |->
                         IF i = BakedBrdfImage /\ m_shouldSaveBakedBrdf THEN brdf.st
                         ELSE IF i = DiffuseIrradianceMap /\ shouldSaveDiffMap THEN diff.st
                         ELSE IF i = SpecularIrradianceMap /\ shouldSaveSpecMap THEN spec.st
                         ELSE imgs[i]]
           /\ layoutErrors' =
                  (IF m_shouldSaveBakedBrdf THEN brdf.layoutErrors ELSE {})
                  \cup (IF shouldSaveDiffMap THEN diff.layoutErrors ELSE {})
                  \cup (IF shouldSaveSpecMap THEN spec.layoutErrors ELSE {})
    /\ savedToDisk' = ArtifactsToSave(m_shouldSaveBakedBrdf, shouldSaveDiffMap,
                                      shouldSaveSpecMap)
    /\ pc' = "save_idle"
    /\ UNCHANGED <<cacheFiles, recorded, calc>>
    /\ UNCHANGED <<raised, frameVars, subResult, cacheVars, fences, uniformWriting,
                   gpuVars, hazards>>

\* savePrecomputationResults: the closing vkDeviceWaitIdle.
Save_DeviceWaitIdle ==
    /\ pc = "save_idle"
    /\ DeviceIdle
    /\ pc' = "done"
    /\ UNCHANGED <<raised, frameVars, subResult, cacheVars, fences, uniformWriting,
                   gpuVars, imageVars>>
    /\ UNCHANGED setupVars

(***************************************************************************)
(* The GPU side.                                                           *)
(***************************************************************************)
\* The presentation engine signals m_imageAvailableSemaphore when the image of
\* an acquisition becomes available; the images of the acquisitions made so
\* far become available in no particular order.
PresentationEngine_SignalImageAvailable ==
    /\ ~sem["m_imageAvailableSemaphore"]
    /\ \E f \in acqPending :
          /\ sem' = [sem EXCEPT !["m_imageAvailableSemaphore"] = TRUE]
          /\ semSignaler' = [semSignaler EXCEPT !["m_imageAvailableSemaphore"] =
                                <<f, "acquire">>]
          /\ acqPending' = acqPending \ {f}
    /\ UNCHANGED <<cpuVars, fenceSignaled, computeQueue, gfxQueue, gpuStep, started,
                   finished, presented, imageVars>>
    /\ UNCHANGED setupVars

\* drawFrame hands the one m_imageAvailableSemaphore to every acquisition
\* without waiting for the previous frame's wait on it: a signal that arrives
\* while the semaphore is still signalled is lost.
PresentationEngine_SignalLost ==
    /\ sem["m_imageAvailableSemaphore"]
    /\ \E f \in acqPending : acqPending' = acqPending \ {f}
    /\ UNCHANGED <<cpuVars, fenceSignaled, sem, semSignaler, computeQueue, gfxQueue,
                   gpuStep, started, finished, presented, imageVars>>
    /\ UNCHANGED setupVars

\* The compute queue runs the BRDF LUT dispatch, which writes the storage
\* image through a descriptor declaring GENERAL, and signals its fence.
ComputeQueue_Execute ==
    /\ computeQueue # <<>>
    /\ LET b == Head(computeQueue)
       IN  /\ started' = started \cup
                  {[frame |-> b.frame, kind |-> b.kind, signaledBy |-> <<0, "none">>]}
           /\ finished' = finished \cup {<<b.frame, b.kind>>}
           /\ fenceSignaled' = [fenceSignaled EXCEPT ![b.fence] = TRUE]
           /\ layoutErrors' =
                  (IF imgs[BakedBrdfImage].layout = GENERAL THEN {}
                   ELSE {LayoutError("STORAGE_IMAGE", BakedBrdfImage, GENERAL,
                                     imgs[BakedBrdfImage].layout)})
    /\ computeQueue' = Tail(computeQueue)
    /\ UNCHANGED <<cpuVars, sem, semSignaler, acqPending, gfxQueue, gpuStep, presented, imgs, hazards>>
    /\ UNCHANGED setupVars

\* createFramebuffers creates the prefilter framebuffers only for the maps
\* that are not ready, while createEnvPrefilterCommandBuffer records both.
FramebufferCreated(fb) ==
    CASE fb[1] = "m_diffEnvPrefilterFramebuffer" -> ~diffMapReady
      [] fb[1] = "m_specEnvPrefilterFramebuffers" -> ~specMapReady
      [] OTHER -> TRUE

\* A batch reads the uniform buffer if a descriptor set it binds has a
\* uniform-buffer binding.
UniformReadingSets ==
    {"m_specEnvPrefilterDescriptorSet", "m_skyboxDescriptorSet", "m_geomDescriptorSets",
     "m_lightingDescriptorSet", "m_finalOutputDescriptorSet"}
ReadsUniformBuffer(b) ==
    \E k \in DOMAIN CommandBuffer(b.cb) : \E j \in DOMAIN CommandBuffer(b.cb)[k].draws :
        CommandBuffer(b.cb)[k].draws[j].set[1] \in UniformReadingSets

\* The graphics queue runs its batches in submission order, one recorded
\* subpass at a time: a batch starts by consuming its wait semaphore, and
\* signals its semaphore and fence when its last step is done.
GraphicsQueue_Execute ==
    /\ gfxQueue # <<>>
    /\ LET b == Head(gfxQueue)
           n == IF b.cb \in AllCommandBuffers THEN StepCount[b.cb] ELSE 0
           k == gpuStep + 1
           starting == gpuStep = 0
           finishing == k >= n
       IN  /\ (starting /\ b.wait # "none") => sem[b.wait]
           /\ \E dws \in IF n > 0 /\ StepWritesDepth[<<b.cb, k>>] THEN DepthWriteStages
                         ELSE {LATE_FRAGMENT_TESTS},
                 renders \in IF n > 0 /\ ~FramebufferCreated(StepFramebuffer[<<b.cb, k>>])
                             THEN BOOLEAN ELSE {TRUE} :
                LET waited == IF starting /\ b.kind \in {"post", "final"}
                              THEN [i \in Images |-> ApplySemaphoreWait(imgs[i])]
                              ELSE imgs
                    r == IF n = 0 \/ ~renders
                         THEN [i \in Images |->
                                  [st |-> waited[i], hazards |-> {}, layoutErrors |-> {}]]
                         ELSE ExecStep(waited, b.cb, k, dws)
                IN  /\ imgs' = [i \in Images |-> r[i].st]
                    /\ hazards' = UNION {r[i].hazards : i \in Images}
                    /\ layoutErrors' = UNION {r[i].layoutErrors : i \in Images}
           /\ sem' = [s \in Semaphores |->
                        IF finishing /\ s = b.signal THEN TRUE
                        ELSE IF starting /\ s = b.wait THEN FALSE
                        ELSE sem[s]]
           /\ semSignaler' = [s \in Semaphores |->
                                IF finishing /\ s = b.signal THEN <<b.frame, b.kind>>
                                ELSE semSignaler[s]]
           /\ started' = IF starting
                         THEN started \cup
                              {[frame |-> b.frame, kind |-> b.kind,
                                signaledBy |-> IF b.wait = "none" THEN <<0, "none">>
                                               ELSE semSignaler[b.wait]]}
                         ELSE started
           /\ finished' = IF finishing THEN finished \cup {<<b.frame, b.kind>>}
                          ELSE finished
           /\ presented' = IF finishing /\ b.kind = "present"
                           THEN presented \cup {b.frame} ELSE presented
           /\ fenceSignaled' = [f \in Fences |->
                                  IF finishing /\ f = b.fence THEN TRUE
                                  ELSE fenceSignaled[f]]
           /\ gfxQueue' = IF finishing THEN Tail(gfxQueue) ELSE gfxQueue
           /\ gpuStep' = IF finishing THEN 0 ELSE k
    /\ UNCHANGED <<cpuVars, acqPending, computeQueue>>
    /\ UNCHANGED setupVars

Next ==
    \/ InitVulkan
    \/ UpdateUniformBuffers_Map
    \/ UpdateUniformBuffers_Unmap
    \/ Precompute_SubmitBrdfLut
    \/ Precompute_SubmitEnvPrefilter
    \/ Precompute_WaitForFences
    \/ Precompute_Transition
    \/ MainLoop_Iterate
    \/ MainLoop_Exit
    \/ DrawFrame_Acquire
    \/ DrawFrame_Submit
    \/ DrawFrame_Present
    \/ RecreateSwapChain
    \/ SavePrecomputationResults
    \/ Save_DeviceWaitIdle
    \/ PresentationEngine_SignalImageAvailable
    \/ PresentationEngine_SignalLost
    \/ ComputeQueue_Execute
    \/ GraphicsQueue_Execute

Spec == Init /\ [][Next]_vars

(***************************************************************************)
(* Properties of the frame scheduler.                                      *)
(***************************************************************************)
FrameLoopPcs ==
    {"loop", "loop_update", "loop_updating", "acquire", "submit", "present", "recreate"}
PrecomputePcs ==
    {"initVulkan", "pre_update", "pre_updating", "pre_brdf", "pre_env", "pre_wait",
     "pre_transition"}
AfterDrawFramePcs == {"loop", "save", "save_idle", "done"}

\* C1: in a frame whose acquisition is not skipped, drawFrame submits exactly
\* three batches, geometry+lighting then post-effect then final output, chained
\* by semaphores image-available -> geometry-lighting-complete -> post-effect
\* -> final-output-finished, and presents waiting on final-output-finished; on
\* the GPU every batch of the frame starts on the signal of its predecessor in
\* the frame, after that predecessor has completed.
C1_ThreeChainedBatches ==
    /\ (acqResult \in {VK_SUCCESS, VK_SUBOPTIMAL_KHR} /\ subResult = VK_SUCCESS
            /\ pc # "submit")
       => /\ Len(frameSubmits) = 3
          /\ frameSubmits[1].cb = <<"m_geomAndLightingCommandBuffer", 0>>
          /\ frameSubmits[1].wait = "m_imageAvailableSemaphore"
          /\ frameSubmits[1].signal = "m_geomAndLightingCompleteSemaphore"
          /\ frameSubmits[2].cb = <<"m_postEffectCommandBuffer", 0>>
          /\ frameSubmits[2].wait = "m_geomAndLightingCompleteSemaphore"
          /\ frameSubmits[2].signal = "m_postEffectSemaphore"
          /\ frameSubmits[3].cb = <<"m_presentCommandBuffers", imageIndex>>
          /\ frameSubmits[3].wait = "m_postEffectSemaphore"
          /\ frameSubmits[3].signal = "m_finalOutputFinishedSemaphore"
    /\ framePresent # <<>>
       => /\ framePresent = <<"m_finalOutputFinishedSemaphore">>
          /\ Len(frameSubmits) = 3
    /\ \A s \in started :
          /\ s.kind = "geom" => s.signaledBy = <<s.frame, "acquire">>
          /\ s.kind = "post" =>
                s.signaledBy = <<s.frame, "geom">> /\ <<s.frame, "geom">> \in finished
          /\ s.kind = "final" =>
                s.signaledBy = <<s.frame, "post">> /\ <<s.frame, "post">> \in finished
          /\ s.kind \in {"present", "presentRejected"} =>
                s.signaledBy = <<s.frame, "final">> /\ <<s.frame, "final">> \in finished

\* C2: when the acquisition returns out of date, the swapchain is recreated and
\* drawFrame returns with no batch submitted and no present call made in that frame.
C2_OutOfDateAcquireSkipsFrame ==
    acqResult = VK_ERROR_OUT_OF_DATE_KHR
    => /\ frameSubmits = <<>>
       /\ framePresent = <<>>
       /\ presResult = "none"
       /\ raised = "none"
       /\ \/ pc = "recreate" /\ frameRecreates = 0
          \/ pc \in AfterDrawFramePcs /\ frameRecreates = 1
       /\ \A i \in DOMAIN gfxQueue : gfxQueue[i].frame # frame
       /\ \A s \in started : s.frame # frame

C2_Witness ==
    /\ acqResult = VK_ERROR_OUT_OF_DATE_KHR
    /\ pc = "loop"
    /\ frameRecreates = 1

C4_StalePresentRecreatesOnce ==
    presResult \in {VK_ERROR_OUT_OF_DATE_KHR, VK_SUBOPTIMAL_KHR}
    => /\ raised = "none"
       /\ pc # "crashed"
       /\ \/ pc = "recreate" /\ frameRecreates = 0
          \/ pc \in AfterDrawFramePcs /\ frameRecreates = 1

\* The loop is back at its head after the recreation, with a frame still to run.
C4_Witness ==
    /\ presResult = VK_SUBOPTIMAL_KHR
    /\ frameRecreates = 1
    /\ pc = "loop"
    /\ frame < MaxFrames

RecoverableResults == {VK_SUCCESS, VK_SUBOPTIMAL_KHR, VK_ERROR_OUT_OF_DATE_KHR}

C5_FatalResultRaises ==
    /\ acqResult \notin RecoverableResults \cup {"none"}
       => pc = "crashed" /\ raised = "failed to acquire swap chain image!"
    /\ subResult \notin RecoverableResults \cup {"none"}
       => pc = "crashed" /\ raised # "none"
    /\ presResult \notin RecoverableResults \cup {"none"}
       => pc = "crashed" /\ raised = "failed to present swap chain image!"
    /\ pc = "crashed" <=> raised # "none"
    /\ raised # "none"
       => \/ acqResult \notin RecoverableResults \cup {"none"}
          \/ subResult \notin RecoverableResults \cup {"none"}
          \/ presResult \notin RecoverableResults \cup {"none"}

C5_NothingSubmittedAfter ==
    pc = "crashed"
    => /\ pc' = "crashed"
       /\ raised' = raised
       /\ Len(gfxQueue') <= Len(gfxQueue)
       /\ Len(computeQueue') <= Len(computeQueue)
       /\ acqPending' \subseteq acqPending

\* C5: an acquisition, submission or present result other than success, out
\* of date or suboptimal raises a runtime error that leaves run(), after which
\* nothing more is submitted to a queue; out of date and suboptimal never raise.
C5_OtherResultsAreFatal == [](C5_FatalResultRaises) /\ [][C5_NothingSubmittedAfter]_vars

\* A timed-out acquisition ended run() while the GPU still had work queued.
C5_Witness ==
    /\ pc = "crashed"
    /\ acqResult = VK_TIMEOUT
    /\ gfxQueue # <<>>

\* C6: the precompute jobs that are needed are submitted, each with its own
\* fence, before the CPU waits; the CPU goes on only when every submitted job
\* has completed; the computed images are then transitioned to
\* SHADER_READ_ONLY_OPTIMAL; and no frame batch is submitted before that.
C6_PrecomputeBeforeFrames ==
    /\ pc = "pre_wait"
       => /\ ~m_bakedBrdfReady
             => "m_brdfLutFence" \in FenceSet
                /\ (BrdfLutBatch \in {computeQueue[i] : i \in DOMAIN computeQueue}
                    \/ <<0, "brdf">> \in finished)
          /\ (~diffMapReady \/ ~specMapReady)
             => "m_envPrefilterFence" \in FenceSet
                /\ (EnvPrefilterBatch \in {gfxQueue[i] : i \in DOMAIN gfxQueue}
                    \/ <<0, "prefilter">> \in finished)
    /\ pc \in {"pre_transition"} \cup FrameLoopPcs
       => /\ "m_brdfLutFence" \in FenceSet => <<0, "brdf">> \in finished
          /\ "m_envPrefilterFence" \in FenceSet => <<0, "prefilter">> \in finished
    /\ pc \in FrameLoopPcs
       => /\ "m_brdfLutFence" \in FenceSet
             => imgs[BakedBrdfImage].layout = SHADER_READ_ONLY_OPTIMAL
          /\ ~diffMapReady => imgs[DiffuseIrradianceMap].layout = SHADER_READ_ONLY_OPTIMAL
          /\ ~specMapReady => imgs[SpecularIrradianceMap].layout = SHADER_READ_ONLY_OPTIMAL
    /\ pc \in PrecomputePcs
       => /\ frame = 0
          /\ \A i \in DOMAIN gfxQueue : gfxQueue[i].kind = "prefilter"
          /\ \A s \in started : s.kind \in {"brdf", "prefilter"}
    /\ \A i \in DOMAIN computeQueue : computeQueue[i].fence = "m_brdfLutFence"
    /\ \A i \in DOMAIN gfxQueue :
          gfxQueue[i].kind = "prefilter" => gfxQueue[i].fence = "m_envPrefilterFence"

\* Both jobs were submitted and waited for, and the first frame is under way.
C6_Witness ==
    /\ Len(fences) = 2
    /\ frame = 1
    /\ pc = "present"
    /\ {<<0, "brdf">>, <<0, "prefilter">>} \subseteq finished

\* The GPU is inside a batch that reads the uniform buffer.
UniformBufferBeingRead ==
    /\ gfxQueue # <<>>
    /\ gpuStep >= 1
    /\ ReadsUniformBuffer(Head(gfxQueue))

\* C7: the CPU's copy into the mapped uniform buffer never overlaps a GPU read
\* of that buffer by a batch of any frame.
C7_NoUniformBufferRace == ~(uniformWriting /\ UniformBufferBeingRead)

\* The recorded subpass the graphics queue executes next within the batch
\* it has begun.
NextStep == CommandBuffer(Head(gfxQueue).cb)[gpuStep + 1]

\* C8: every attachment a subpass is about to read through an input-attachment
\* reference has a declared dependency from the subpass that last wrote it to
\* the reading subpass, whose source stage and access masks contain that write
\* and whose destination masks contain the fragment-shader input-attachment read.
C8_InputAttachmentReadsCovered ==
    (gfxQueue # <<>> /\ gpuStep >= 1)
    => LET rp == RenderPass(NextStep.rp)
           sp == rp.subpasses[NextStep.sub + 1]
       IN  \A i \in DOMAIN sp.input :
              LET st == imgs[Framebuffer(NextStep.fb)[sp.input[i].att + 1]]
              IN  st.w
                  => \E d \in rp.deps :
                        /\ d.src = st.wSub
                        /\ d.dst = NextStep.sub
                        /\ <<st.wStage, st.wAccess>> \in d.firstAccess
                        /\ <<FRAGMENT_SHADER, INPUT_ATTACHMENT_READ>> \in d.secondAccess

BloomRenderPassNames == {"m_bloomRenderPasses[0]", "m_bloomRenderPasses[1]"}

\* C9, for the post-effect command buffer: no render pass instance of the
\* bloom passes makes an access (layout transition, sampling, colour write)
\* that the declared dependencies leave unordered with, or invisible to, an
\* earlier access to the same image.
C9_BloomPassesCoverHazards ==
    \A h \in hazards : h.rp \notin BloomRenderPassNames

\* C10: whenever an image is accessed, its layout is the one the access
\* declares: the initial layout of a render pass attachment, the layout in the
\* descriptor through which it is sampled or read as an input attachment, the
\* old layout of an explicit transition.
C10_LayoutsMatch == layoutErrors = {}

(***************************************************************************)
(* The precompute cache.                                                   *)
(***************************************************************************)
PrecomputeKinds == {"brdf", "prefilter"}

\* C11: when the cache files of all three artifacts exist at startup, no BRDF
\* or prefilter command buffer is recorded, the precompute stage submits
\* nothing to the compute or the graphics queue, waits on no fence and
\* transitions no layout, and nothing is written to disk at shutdown.
C11_FullCacheDoesNoWork ==
    cacheFiles = Artifacts
    => /\ recorded = {}
       /\ computeQueue = <<>>
       /\ \A i \in DOMAIN gfxQueue : gfxQueue[i].kind \notin PrecomputeKinds
       /\ \A s \in started : s.kind \notin PrecomputeKinds
       /\ \A f \in finished : f[2] \notin PrecomputeKinds
       /\ fences = <<>>
       /\ \A f \in Fences : ~fenceSignaled[f]
       /\ pc # "pre_transition"
       /\ \A a \in Artifacts : imgs[ArtifactImage(a)].layout = SHADER_READ_ONLY_OPTIMAL
       /\ savedToDisk = {}

\* Everything was cached, a frame was presented and the renderer shut down.
C11_Witness ==
    /\ cacheFiles = Artifacts
    /\ pc = "done"
    /\ presented # {}

\* C12: the cache decision is taken per artifact: for an artifact whose cache
\* file exists no compute or render work is recorded, whatever the state of
\* the other two, and its image is never rendered to (it stays in the layout
\* it was loaded in).
C12_CacheDecisionPerArtifact ==
    \A a \in cacheFiles :
        /\ a \notin recorded
        /\ imgs[ArtifactImage(a)].layout = SHADER_READ_ONLY_OPTIMAL

\* C13: when no cache file exists, all three artifacts are marked ready once the
\* precompute stage has returned, so that the recording functions, run again,
\* would record nothing.
C13_AllReadyAfterPrecompute ==
    (cacheFiles = {} /\ pc \in FrameLoopPcs \cup {"save", "save_idle", "done"})
    => /\ m_bakedBrdfReady /\ diffMapReady /\ specMapReady
       /\ BrdfLutCommandsRecorded(m_bakedBrdfReady)
          \cup EnvPrefilterCommandsRecorded(diffMapReady, specMapReady) = {}

\* The artifacts computed in this run: marked for computation because their
\* cache file was missing, and the job that computes them has completed.
FreshlyComputed ==
    {a \in Artifacts \ cacheFiles :
        <<0, IF a = "brdfLut" THEN "brdf" ELSE "prefilter">> \in finished}

C14_SavedIffComputed ==
    /\ pc # "initVulkan"
       => /\ m_shouldSaveBakedBrdf = ("brdfLut" \notin cacheFiles)
          /\ shouldSaveDiffMap = ("diffuseMap" \notin cacheFiles)
          /\ shouldSaveSpecMap = ("specularMap" \notin cacheFiles)
    /\ pc \in {"save_idle", "done"}
       => /\ savedToDisk = Artifacts \ cacheFiles
          /\ savedToDisk = FreshlyComputed
    /\ pc \notin {"save_idle", "done"} => savedToDisk = {}

C14_SaveAfterLoop ==
    /\ savedToDisk' # savedToDisk => pc = "save"
    /\ (pc' = "save" /\ pc # "save") => pc = "loop"
    /\ pc \in {"save", "save_idle", "done"} => pc' \notin FrameLoopPcs \cup PrecomputePcs

\* C14: an artifact is read back and written to disk if and only if it was
\* computed in this run (its save flag is set exactly when it is marked for
\* computation), and every write happens in savePrecomputationResults, which
\* is reached only after the frame loop has ended.
C14_PersistAfterLoop == [](C14_SavedIffComputed) /\ [][C14_SaveAfterLoop]_vars

\* A run that computed some artifacts, loaded another, and has shut down.
C14_Witness ==
    /\ pc = "done"
    /\ savedToDisk # {}
    /\ cacheFiles # {}
    /\ presented # {}

(***************************************************************************)
(* Resource construction, one function at a time: the constructor and the  *)
(* create* functions initVulkan calls, applied to every device alignment,  *)
(* model count and mesh the bounds allow.                                  *)
(***************************************************************************)
runVars == <<cpuVars, gpuVars, imageVars, cacheFiles, recorded, savedToDisk>>

ALL_UNIFORM_BLOB_SIZE == 64 * 1024

\* An allocator that packs the regions without aligning them.
UniformBlobAlloc_Packed(blob, size) ==
    [blob EXCEPT !.next = blob.next + size,
                 !.allocs = Append(blob.allocs, [offset |-> blob.next, size |-> size])]

\* UniformBlob::alloc: the region starts at the current end of the blob, which
\* then advances by the size rounded up to the alignment.
UniformBlobAlloc(blob, size) ==
    [blob EXCEPT !.next = blob.next
                          + ((size + blob.alignment - 1) \div blob.alignment)
                            * blob.alignment,
                 !.allocs = Append(blob.allocs, [offset |-> blob.next, size |-> size])]

RECURSIVE AllocAll(_, _)
\* The allocations of createUniformBuffers, in order.
AllocAll(blob, sizes) ==
    IF sizes = <<>> THEN blob
    ELSE AllocAll(UniformBlobAlloc(blob, Head(sizes)), Tail(sizes))

\* The inputs of construction: the device's minUniformBufferOffsetAlignment (a
\* power of two, at most 256), the models loaded, sizeof(PerModelUniformBuffer)
\* (one or two mat4) and whether each model's mesh has an ambient-occlusion map.
ConstructionInputs ==
    UNION {[op : {"constructor"}, alignment : {1, 2, 4, 8, 16, 32, 64, 128, 256},
            numModels : {m}, perModelSize : {64, 128},
            hasAoMap : [1..m -> BOOLEAN]] : m \in 0..MaxModels}

\* The constructor: setAlignment on the still empty blob.
Constructor ==
    /\ calc.op = "constructor"
    /\ calc' = [op |-> "createUniformBuffers", in |-> calc,
                blob |-> [alignment |-> calc.alignment, next |-> 0, allocs |-> <<>>]]
    /\ UNCHANGED runVars

\* createUniformBuffers: the four global structures, then one per model.  The
\* sizes are those of CubeMapCameraUniformBuffer (7 mat4), TransMatsUniformBuffer
\* (mat4), LightingPassUniformBuffer (vec4 + NUM_LIGHTS PointLight of 32 bytes)
\* and DisplayInfoUniformBuffer (int).
CreateUniformBuffers ==
    /\ calc.op = "createUniformBuffers"
    /\ calc' = [calc EXCEPT
                  !.op = "createDescriptorPools",
                  !.blob = AllocAll(calc.blob,
                                    <<7 * 64, 64, 16 + 2 * 32, 4>>
                                    \o [i \in 1..calc.in.numModels |-> calc.in.perModelSize])]
    /\ UNCHANGED runVars

(***************************************************************************)
(* Descriptor pool and descriptor sets.                                    *)
(***************************************************************************)
\* VMesh::numMapsPerMesh: albedo, normal, roughness, metalness, ambient occlusion.
NumMapsPerMesh == 5

\* The descriptors a set of each layout takes from the pool, by type.
SetLayoutDescriptors(layout) ==
    CASE layout = "m_brdfLutDescriptorSetLayout" ->
            [ubo |-> 0, sampler |-> 0, input |-> 0, storage |-> 1]
      [] layout = "m_specEnvPrefilterDescriptorSetLayout" ->
            [ubo |-> 1, sampler |-> 1, input |-> 0, storage |-> 0]
      [] layout = "m_skyboxDescriptorSetLayout" ->
            [ubo |-> 1, sampler |-> 1, input |-> 0, storage |-> 0]
      [] layout = "m_geomDescriptorSetLayout" ->
            [ubo |-> 2, sampler |-> 5, input |-> 0, storage |-> 0]
      [] layout = "m_lightingDescriptorSetLayout" ->
            [ubo |-> 1, sampler |-> 3, input |-> 4, storage |-> 0]
      [] layout = "m_bloomDescriptorSetLayout" ->
            [ubo |-> 0, sampler |-> 1, input |-> 0, storage |-> 0]
      [] layout = "m_finalOutputDescriptorSetLayout" ->
            [ubo |-> 1, sampler |-> 5, input |-> 0, storage |-> 0]

\* The layouts createDescriptorSets hands to allocateDescriptorSets.
SetLayoutsAllocated(numModels) ==
    <<"m_brdfLutDescriptorSetLayout", "m_specEnvPrefilterDescriptorSetLayout",
      "m_skyboxDescriptorSetLayout", "m_lightingDescriptorSetLayout",
      "m_finalOutputDescriptorSetLayout">>
    \o [i \in 1..numModels |-> "m_geomDescriptorSetLayout"]
    \o [i \in 1..3 |-> "m_bloomDescriptorSetLayout"]

\* A pool whose image samplers do not grow with the number of models.
DescriptorPool_FixedSamplers(numModels) ==
    [maxSets |-> 8 + numModels,
     size |-> [ubo |-> 6 + 2 * numModels, sampler |-> 14 + 1, input |-> 4, storage |-> 1],
     sets |-> 0,
     used |-> [ubo |-> 0, sampler |-> 0, input |-> 0, storage |-> 0],
     exhausted |-> FALSE]

\* createDescriptorPools: the set count and the descriptors reserved per type
\* (m_bakedBRDFs has one element); nothing is allocated yet.
DescriptorPool(numModels) ==
    [maxSets |-> 8 + numModels,
     size |-> [ubo |-> 6 + 2 * numModels,
               sampler |-> 14 + numModels * NumMapsPerMesh + 1,
               input |-> 4,
               storage |-> 1],
     sets |-> 0,
     used |-> [ubo |-> 0, sampler |-> 0, input |-> 0, storage |-> 0],
     exhausted |-> FALSE]

\* vkResetDescriptorPool: every set allocated from the pool goes back to it.
ResetDescriptorPool(pool) ==
    [pool EXCEPT !.sets = 0,
                 !.used = [ubo |-> 0, sampler |-> 0, input |-> 0, storage |-> 0]]

RECURSIVE AllocateDescriptorSets(_, _)
\* vkAllocateDescriptorSets, one layout after the other: an allocation the pool
\* has no set or no descriptors left for fails.
AllocateDescriptorSets(pool, layouts) ==
    IF layouts = <<>> THEN pool
    ELSE LET need == SetLayoutDescriptors(Head(layouts))
             fits == /\ pool.sets + 1 <= pool.maxSets
                     /\ \A t \in DOMAIN need : pool.used[t] + need[t] <= pool.size[t]
         IN  AllocateDescriptorSets(
                 IF fits
                 THEN [pool EXCEPT !.sets = @ + 1,
                                   !.used = [t \in DOMAIN need |-> pool.used[t] + need[t]]]
                 ELSE [pool EXCEPT !.exhausted = TRUE],
                 Tail(layouts))

\* A geometry set whose binding 6 always takes the ambient-occlusion map.
StaticMeshDescriptorSet_AlwaysAo(i, hasAoMap) ==
    [b \in 0..6 |->
        CASE b = 0 -> [type |-> "ubo", resource |-> "m_uTransMats"]
          [] b = 1 -> [type |-> "ubo", resource |-> <<i, "uPerModelInfo">>]
          [] b = 2 -> [type |-> "sampler", view |-> <<i, "albedoMap">>, sampler |-> <<i, "albedoMap">>]
          [] b = 3 -> [type |-> "sampler", view |-> <<i, "normalMap">>, sampler |-> <<i, "normalMap">>]
          [] b = 4 -> [type |-> "sampler", view |-> <<i, "roughnessMap">>, sampler |-> <<i, "roughnessMap">>]
          [] b = 5 -> [type |-> "sampler", view |-> <<i, "metalnessMap">>, sampler |-> <<i, "metalnessMap">>]
          [] b = 6 -> [type |-> "sampler", view |-> <<i, "aoMap">>, sampler |-> <<i, "aoMap">>]]

\* createStaticMeshDescriptorSet, for model i: the two uniform regions, the
\* four maps every mesh has, and at binding 6 the ambient-occlusion map or,
\* when the mesh has none, the albedo map.
StaticMeshDescriptorSet(i, hasAoMap) ==
    [b \in 0..6 |->
        CASE b = 0 -> [type |-> "ubo", resource |-> "m_uTransMats"]
          [] b = 1 -> [type |-> "ubo", resource |-> <<i, "uPerModelInfo">>]
          [] b = 2 -> [type |-> "sampler", view |-> <<i, "albedoMap">>, sampler |-> <<i, "albedoMap">>]
          [] b = 3 -> [type |-> "sampler", view |-> <<i, "normalMap">>, sampler |-> <<i, "normalMap">>]
          [] b = 4 -> [type |-> "sampler", view |-> <<i, "roughnessMap">>, sampler |-> <<i, "roughnessMap">>]
          [] b = 5 -> [type |-> "sampler", view |-> <<i, "metalnessMap">>, sampler |-> <<i, "metalnessMap">>]
          [] b = 6 -> [type |-> "sampler",
                       view |-> <<i, IF hasAoMap THEN "aoMap" ELSE "albedoMap">>,
                       sampler |-> <<i, IF hasAoMap THEN "aoMap" ELSE "albedoMap">>]]

\* createDescriptorPools.
CreateDescriptorPools ==
    /\ calc.op = "createDescriptorPools"
    /\ calc' = [op |-> "createDescriptorSets", in |-> calc.in, blob |-> calc.blob,
                pool |-> DescriptorPool(calc.in.numModels), calls |-> 0,
                geomSets |-> <<>>, uniformDescriptors |-> {}]
    /\ UNCHANGED runVars

\* create*DescriptorSet: the uniform-buffer descriptors written, each with the
\* offset (offsetOf the pointer createUniformBuffers kept for a region) and the
\* size (sizeof a structure) passed to it.  allocs are the blob's regions in
\* allocation order: cube camera, transformation matrices, lighting info,
\* display info, then one per model; `region` is the index of the region whose
\* pointer the offset is taken from.
UniformBufferDescriptors(allocs, numModels, perModelSize) ==
    { [set |-> <<"m_specEnvPrefilterDescriptorSet", 0>>, binding |-> 0, region |-> 1,
       offset |-> allocs[1].offset, size |-> 7 * 64],
      [set |-> <<"m_skyboxDescriptorSet", 0>>, binding |-> 0, region |-> 2,
       offset |-> allocs[2].offset, size |-> 4],
      [set |-> <<"m_lightingDescriptorSet", 0>>, binding |-> 0, region |-> 3,
       offset |-> allocs[3].offset, size |-> 16 + 2 * 32],
      [set |-> <<"m_finalOutputDescriptorSet", 0>>, binding |-> 5, region |-> 4,
       offset |-> allocs[4].offset, size |-> 4] }
    \cup { [set |-> <<"m_geomDescriptorSets", i - 1>>, binding |-> 0, region |-> 2,
            offset |-> allocs[2].offset, size |-> 64] : i \in 1..numModels }
    \cup { [set |-> <<"m_geomDescriptorSets", i - 1>>, binding |-> 1, region |-> 4 + i,
            offset |-> allocs[4 + i].offset, size |-> perModelSize] : i \in 1..numModels }

\* createDescriptorSets: reset the pool, allocate every set, write the sets.
\* It runs once in initVulkan and again whenever the sets are re-created.
CreateDescriptorSets ==
    /\ calc.op = "createDescriptorSets"
    /\ calc.calls < MaxCreateCalls
    /\ calc' = [calc EXCEPT
                  !.pool = AllocateDescriptorSets(ResetDescriptorPool(calc.pool),
                                                  SetLayoutsAllocated(calc.in.numModels)),
                  !.calls = @ + 1,
                  !.geomSets = [i \in 1..calc.in.numModels |->
                                   StaticMeshDescriptorSet(i, calc.in.hasAoMap[i])],
                  !.uniformDescriptors =
                      UniformBufferDescriptors(calc.blob.allocs, calc.in.numModels,
                                               calc.in.perModelSize)]
    /\ UNCHANGED runVars

(***************************************************************************)
(* The merge pass of the bloom, on one texel.                              *)
(***************************************************************************)
\* What a render pass instance finds in an attachment when it starts: the
\* previous contents if the attachment is loaded from a defined layout, the
\* clear value if it is cleared.
AttachmentLoad(att, previous, clearValue) ==
    IF att.loadOp = LOAD_OP_LOAD /\ att.initial # UNDEFINED THEN previous ELSE clearValue

\* A colour blend state that is disabled: the source replaces the destination.
ColorBlend_Disabled(pipeline, src, dst) == src

\* The colour a pipeline writes for a fragment of colour src over a
\* destination of colour dst.  The merge pipeline blends with factors
\* VK_BLEND_FACTOR_ONE, VK_BLEND_FACTOR_ONE and VK_BLEND_OP_ADD; the other
\* pipelines have blending disabled.
ColorBlend(pipeline, src, dst) ==
    IF BlendEnabled(pipeline) THEN 1 * src + 1 * dst ELSE src

\* The merge pass, the last render pass instance of the post-effect command
\* buffer, on one texel: the fragment shader's output is the bloom sampled,
\* the destination is what the render pass loaded.
MergePass ==
    /\ calc.op = "merge"
    /\ LET step == PostEffectCommandBuffer[Len(PostEffectCommandBuffer)]
           dst == AttachmentLoad(RenderPass(step.rp).attachments[1], calc.lighting, 0)
       IN  calc' = [calc EXCEPT !.op = "merged",
                                !.result = ColorBlend(step.draws[1].pipeline,
                                                      calc.bloom, dst)]
    /\ UNCHANGED runVars

(***************************************************************************)
(* Sizes of the colour attachments and of the bloom viewports.             *)
(***************************************************************************)
\* createColorAttachmentResources: the width and height given to a post-effect
\* image for a swapchain extent.
PostEffectImageExtent(swapChainExtent) ==
    [width |-> swapChainExtent.width, height |-> swapChainExtent.height]

\* createBloomPipelines: the viewport and scissor of the brightness and blur
\* pipelines for a swapchain extent.
BloomViewport(swapChainExtent) ==
    [width |-> swapChainExtent.width, height |-> swapChainExtent.height]

\* createColorAttachmentResources, then createBloomPipelines.
CreateColorAttachmentResources ==
    /\ calc.op = "createColorAttachmentResources"
    /\ calc' = [op |-> "createBloomPipelines", in |-> calc,
                postEffectImages |-> [i \in 0..1 |-> PostEffectImageExtent(calc.extent)],
                viewport |-> [p \in 0..1 |-> BloomViewport(calc.extent)]]
    /\ UNCHANGED runVars

(***************************************************************************)
(* Command recording.  A recorded command buffer is the sequence of its    *)
(* vkCmd* calls (vertex/index buffer binds and dynamic viewport/scissor    *)
(* settings left out), each a record naming the call and its arguments.    *)
(***************************************************************************)
\* What each pipeline was created with: its layout, the render pass and subpass
\* it was created for (none for the compute pipeline) and the number of
\* colour-blend attachment states added to it.
PipelineCreateInfo(pipeline) ==
    CASE pipeline = "m_brdfLutPipeline" ->
             [layout |-> "m_brdfLutPipelineLayout", renderPass |-> "none",
              subpass |-> 0, blendAttachments |-> 0]
      [] pipeline = "m_diffEnvPrefilterPipeline" ->
             [layout |-> "m_diffEnvPrefilterPipelineLayout",
              renderPass |-> "m_specEnvPrefilterRenderPass",
              subpass |-> 0, blendAttachments |-> 1]
      [] pipeline = "m_specEnvPrefilterPipeline" ->
             [layout |-> "m_specEnvPrefilterPipelineLayout",
              renderPass |-> "m_specEnvPrefilterRenderPass",
              subpass |-> 0, blendAttachments |-> 1]
      [] pipeline = "m_skyboxPipeline" ->
             [layout |-> "m_skyboxPipelineLayout",
              renderPass |-> "m_geomAndLightRenderPass",
              subpass |-> 0, blendAttachments |-> 3]
      [] pipeline = "m_geomPipeline" ->
             [layout |-> "m_geomPipelineLayout",
              renderPass |-> "m_geomAndLightRenderPass",
              subpass |-> 0, blendAttachments |-> 3]
      [] pipeline = "m_lightingPipeline" ->
             [layout |-> "m_lightingPipelineLayout",
              renderPass |-> "m_geomAndLightRenderPass",
              subpass |-> 1, blendAttachments |-> 1]
      [] pipeline = "m_bloomPipelines[0]" ->
             [layout |-> "m_bloomPipelineLayouts[0]",
              renderPass |-> "m_bloomRenderPasses[0]",
              subpass |-> 0, blendAttachments |-> 1]
      [] pipeline = "m_bloomPipelines[1]" ->
             [layout |-> "m_bloomPipelineLayouts[1]",
              renderPass |-> "m_bloomRenderPasses[0]",
              subpass |-> 0, blendAttachments |-> 1]
      [] pipeline = "m_bloomPipelines[2]" ->
             [layout |-> "m_bloomPipelineLayouts[0]",
              renderPass |-> "m_bloomRenderPasses[1]",
              subpass |-> 0, blendAttachments |-> 1]
      [] pipeline = "m_finalOutputPipeline" ->
             [layout |-> "m_finalOutputPipelineLayout",
              renderPass |-> "m_finalOutputRenderPass",
              subpass |-> 0, blendAttachments |-> 1]

\* createBrdfLutCommandBuffer: one compute dispatch, outside any render pass.
BrdfLutCommands ==
    << [cmd |-> "vkCmdBindPipeline", pipeline |-> "m_brdfLutPipeline"],
       [cmd |-> "vkCmdBindDescriptorSets", layout |-> "m_brdfLutPipelineLayout",
        set |-> <<"m_brdfLutDescriptorSet", 0>>],
       [cmd |-> "vkCmdDispatch"] >>

\* Roughness values are floats; they are kept here as exact multiples of
\* 1/RoughnessOne (rounding is left out), RoughnessOne being divisible by every
\* mipLevels - 1 in range.  FloatInfinity stands for +inf, the IEEE result of
\* 1.f / 0.f, which absorbs addition.
RoughnessOne == MaxMipLevels * (MaxMipLevels - 1) * (MaxMipLevels - 2) * 4
FloatInfinity == RoughnessOne * (MaxMipLevels + 1)
FloatAdd(a, b) ==
    IF a = FloatInfinity \/ b = FloatInfinity THEN FloatInfinity ELSE a + b

\* The specular prefilter loop from mip level `level` on: one render-pass
\* instance per level, pushing the roughness accumulated so far.
RECURSIVE SpecEnvPrefilterLoop(_, _, _, _, _)
SpecEnvPrefilterLoop(level, mipLevels, mapSize, roughness, roughnessDelta) ==
    IF level < mipLevels
    THEN << [cmd |-> "vkCmdBeginRenderPass",
             renderPass |-> "m_specEnvPrefilterRenderPass",
             framebuffer |-> <<"m_specEnvPrefilterFramebuffers", level>>,
             extent |-> [width |-> mapSize \div (2 ^ level),
                         height |-> mapSize \div (2 ^ level)],
             clearValues |-> <<"color">>],
            [cmd |-> "vkCmdBindPipeline", pipeline |-> "m_specEnvPrefilterPipeline"],
            [cmd |-> "vkCmdBindDescriptorSets",
             layout |-> "m_specEnvPrefilterPipelineLayout",
             set |-> <<"m_specEnvPrefilterDescriptorSet", 0>>],
            [cmd |-> "vkCmdPushConstants",
             layout |-> "m_specEnvPrefilterPipelineLayout",
             values |-> <<roughness>>],
            [cmd |-> "vkCmdDrawIndexed", mesh |-> "m_skybox"],
            [cmd |-> "vkCmdEndRenderPass"] >>
         \o SpecEnvPrefilterLoop(level + 1, mipLevels, mapSize,
                                 FloatAdd(roughness, roughnessDelta), roughnessDelta)
    ELSE <<>>

\* createEnvPrefilterCommandBuffer: the diffuse pass, then the specular loop.
EnvPrefilterCommands(mipLevels, mapSize) ==
    << [cmd |-> "vkCmdBeginRenderPass", renderPass |-> "m_specEnvPrefilterRenderPass",
        framebuffer |-> <<"m_diffEnvPrefilterFramebuffer", 0>>,
        extent |-> [width |-> "DIFF_IRRADIANCE_MAP_SIZE",
                    height |-> "DIFF_IRRADIANCE_MAP_SIZE"],
        clearValues |-> <<"color">>],
       [cmd |-> "vkCmdBindPipeline", pipeline |-> "m_diffEnvPrefilterPipeline"],
       [cmd |-> "vkCmdBindDescriptorSets", layout |-> "m_diffEnvPrefilterPipelineLayout",
        set |-> <<"m_specEnvPrefilterDescriptorSet", 0>>],
       [cmd |-> "vkCmdDrawIndexed", mesh |-> "m_skybox"],
       [cmd |-> "vkCmdEndRenderPass"] >>
    \o SpecEnvPrefilterLoop(0, mipLevels, mapSize, 0,
                            IF mipLevels - 1 = 0 THEN FloatInfinity
                            ELSE RoughnessOne \div (mipLevels - 1))

\* Model draws that all bind the descriptor set of model 0.
ModelDrawCommands_SharedSet(models, j) ==
    << [cmd |-> "vkCmdBindDescriptorSets", layout |-> "m_geomPipelineLayout",
        set |-> <<"m_geomDescriptorSets", 0>>],
       [cmd |-> "vkCmdPushConstants", layout |-> "m_geomPipelineLayout",
        values |-> <<models[j + 1].materialType, models[j + 1].hasAoMap>>],
       [cmd |-> "vkCmdDrawIndexed", mesh |-> <<"m_models", j>>] >>

\* The commands recorded for model j (0-based) in the geometry subpass.
ModelDrawCommands(models, j) ==
    << [cmd |-> "vkCmdBindDescriptorSets", layout |-> "m_geomPipelineLayout",
        set |-> <<"m_geomDescriptorSets", j>>],
       [cmd |-> "vkCmdPushConstants", layout |-> "m_geomPipelineLayout",
        values |-> <<models[j + 1].materialType, models[j + 1].hasAoMap>>],
       [cmd |-> "vkCmdDrawIndexed", mesh |-> <<"m_models", j>>] >>

\* The per-model loop of createGeomAndLightingCommandBuffer from model j on.
RECURSIVE ModelDrawLoop(_, _)
ModelDrawLoop(models, j) ==
    IF j < Len(models)
    THEN ModelDrawCommands(models, j) \o ModelDrawLoop(models, j + 1)
    ELSE <<>>

\* createGeomAndLightingCommandBuffer
GeomAndLightingCommands(models, mipLevels) ==
    << [cmd |-> "vkCmdBeginRenderPass", renderPass |-> "m_geomAndLightRenderPass",
        framebuffer |-> <<"m_geomAndLightingFramebuffer", 0>>,
        extent |-> [width |-> "swapChainExtent.width",
                    height |-> "swapChainExtent.height"],
        clearValues |-> <<"depthStencil", "color", "color", "color", "color">>],
       [cmd |-> "vkCmdBindPipeline", pipeline |-> "m_skyboxPipeline"],
       [cmd |-> "vkCmdBindDescriptorSets", layout |-> "m_skyboxPipelineLayout",
        set |-> <<"m_skyboxDescriptorSet", 0>>],
       [cmd |-> "vkCmdPushConstants", layout |-> "m_skyboxPipelineLayout",
        values |-> <<"m_skybox.materialType">>],
       [cmd |-> "vkCmdDrawIndexed", mesh |-> "m_skybox"],
       [cmd |-> "vkCmdBindPipeline", pipeline |-> "m_geomPipeline"] >>
    \o ModelDrawLoop(models, 0)
    \o << [cmd |-> "vkCmdNextSubpass"],
          [cmd |-> "vkCmdBindPipeline", pipeline |-> "m_lightingPipeline"],
          [cmd |-> "vkCmdBindDescriptorSets", layout |-> "m_lightingPipelineLayout",
           set |-> <<"m_lightingDescriptorSet", 0>>],
          [cmd |-> "vkCmdPushConstants", layout |-> "m_lightingPipelineLayout",
           values |-> <<mipLevels>>],
          [cmd |-> "vkCmdDraw", vertexCount |-> 3],
          [cmd |-> "vkCmdEndRenderPass"] >>

\* One full-screen bloom pass of createPostEffectCommandBuffer.
BloomPassCommands(renderPass, framebuffer, clearValues, pipeline, layout, set, push) ==
    << [cmd |-> "vkCmdBeginRenderPass", renderPass |-> renderPass,
        framebuffer |-> <<"m_postEffectFramebuffers", framebuffer>>,
        extent |-> [width |-> "swapChainExtent.width",
                    height |-> "swapChainExtent.height"],
        clearValues |-> clearValues],
       [cmd |-> "vkCmdBindPipeline", pipeline |-> pipeline],
       [cmd |-> "vkCmdBindDescriptorSets", layout |-> layout,
        set |-> <<"m_bloomDescriptorSets", set>>] >>
    \o [k \in 1..Len(push) |->
           [cmd |-> "vkCmdPushConstants", layout |-> "m_bloomPipelineLayouts[1]",
            values |-> <<push[k]>>]]
    \o << [cmd |-> "vkCmdDraw", vertexCount |-> 3],
          [cmd |-> "vkCmdEndRenderPass"] >>

\* The blur loop of createPostEffectCommandBuffer from iteration i on.
RECURSIVE BlurLoop(_)
BlurLoop(i) ==
    IF i < NumBlurIterations
    THEN BloomPassCommands("m_bloomRenderPasses[0]", 1, <<"color">>, "m_bloomPipelines[1]",
                           "m_bloomPipelineLayouts[1]", 1, <<TRUE>>)
         \o BloomPassCommands("m_bloomRenderPasses[0]", 0, <<"color">>, "m_bloomPipelines[1]",
                              "m_bloomPipelineLayouts[1]", 2, <<FALSE>>)
         \o BlurLoop(i + 1)
    ELSE <<>>

\* createPostEffectCommandBuffer: brightness mask, blur loop, merge.
PostEffectCommands ==
    BloomPassCommands("m_bloomRenderPasses[0]", 0, <<"color">>, "m_bloomPipelines[0]",
                      "m_bloomPipelineLayouts[0]", 0, <<>>)
    \o BlurLoop(0)
    \o BloomPassCommands("m_bloomRenderPasses[1]", 2, <<>>, "m_bloomPipelines[2]",
                         "m_bloomPipelineLayouts[0]", 1, <<>>)

\* Present commands that bind the descriptor set with a bloom pipeline layout.
PresentCommands_BloomLayout(i) ==
    << [cmd |-> "vkCmdBeginRenderPass", renderPass |-> "m_finalOutputRenderPass",
        framebuffer |-> <<"m_finalOutputFramebuffers", i>>,
        extent |-> [width |-> "swapChainExtent.width",
                    height |-> "swapChainExtent.height"],
        clearValues |-> <<"color">>],
       [cmd |-> "vkCmdBindPipeline", pipeline |-> "m_finalOutputPipeline"],
       [cmd |-> "vkCmdBindDescriptorSets", layout |-> "m_bloomPipelineLayouts[0]",
        set |-> <<"m_finalOutputDescriptorSet", 0>>],
       [cmd |-> "vkCmdDraw", vertexCount |-> 3],
       [cmd |-> "vkCmdEndRenderPass"] >>

\* createPresentCommandBuffers: the commands of m_presentCommandBuffers[i].
PresentCommands(i) ==
    << [cmd |-> "vkCmdBeginRenderPass", renderPass |-> "m_finalOutputRenderPass",
        framebuffer |-> <<"m_finalOutputFramebuffers", i>>,
        extent |-> [width |-> "swapChainExtent.width",
                    height |-> "swapChainExtent.height"],
        clearValues |-> <<"color">>],
       [cmd |-> "vkCmdBindPipeline", pipeline |-> "m_finalOutputPipeline"],
       [cmd |-> "vkCmdBindDescriptorSets", layout |-> "m_finalOutputPipelineLayout",
        set |-> <<"m_finalOutputDescriptorSet", 0>>],
       [cmd |-> "vkCmdDraw", vertexCount |-> 3],
       [cmd |-> "vkCmdEndRenderPass"] >>

\* The command buffers in the order createCommandBuffers records them.
RecordingOrder ==
    << <<"m_envPrefilterCommandBuffer", 0>>, <<"m_geomAndLightingCommandBuffer", 0>>,
       <<"m_postEffectCommandBuffer", 0>> >>
    \o [i \in 1..NumSwapImages |-> <<"m_presentCommandBuffers", i - 1>>]
    \o << <<"m_brdfLutCommandBuffer", 0>> >>

\* The commands a create*CommandBuffer function records into command buffer cb
\* for the scene `in`.
RecordedCommands(cb, in) ==
    CASE cb[1] = "m_envPrefilterCommandBuffer" ->
             EnvPrefilterCommands(in.mipLevels, in.mapSize)
      [] cb[1] = "m_geomAndLightingCommandBuffer" ->
             GeomAndLightingCommands(in.models, in.mipLevels)
      [] cb[1] = "m_postEffectCommandBuffer" -> PostEffectCommands
      [] cb[1] = "m_presentCommandBuffers" -> PresentCommands(cb[2])
      [] cb[1] = "m_brdfLutCommandBuffer" -> BrdfLutCommands

\* The early returns: the precompute command buffers are not recorded when
\* their results were loaded.
RecordingSkipped(cb, in) ==
    \/ cb[1] = "m_brdfLutCommandBuffer" /\ in.bakedBrdfReady
    \/ cb[1] = "m_envPrefilterCommandBuffer" /\ in.diffMapReady /\ in.specMapReady

\* The scenes and recording outcomes createCommandBuffers is applied to:
\* beginFails and endFails name the command buffer whose vkBeginCommandBuffer,
\* respectively vkEndCommandBuffer, returns an error (<<"none", 0>>: none does).
CommandBufferInputs ==
    [op : {"createCommandBuffers"},
     models : UNION {[1..m -> [materialType : 0..1, hasAoMap : BOOLEAN]] :
                        m \in 0..MaxDrawnModels},
     mipLevels : 1..MaxMipLevels,
     mapSize : {2 ^ MaxMipLevels},
     bakedBrdfReady : BOOLEAN, diffMapReady : BOOLEAN, specMapReady : BOOLEAN,
     beginFails : {RecordingOrder[k] : k \in 1..Len(RecordingOrder)} \cup {<<"none", 0>>},
     endFails : {RecordingOrder[k] : k \in 1..Len(RecordingOrder)} \cup {<<"none", 0>>}]

\* createCommandBuffers: records every command buffer in RecordingOrder.  The
\* result of vkBeginCommandBuffer is dropped; a vkEndCommandBuffer that does not
\* return VK_SUCCESS throws, which ends the function (and with it startup)
\* before the command buffers after it are recorded.
CreateCommandBuffers ==
    /\ calc.op = "createCommandBuffers"
    /\ LET attempted(k) == /\ ~RecordingSkipped(RecordingOrder[k], calc)
                           /\ \A h \in 1..(k - 1) :
                                 \/ RecordingOrder[h] # calc.endFails
                                 \/ RecordingSkipped(RecordingOrder[h], calc)
           cbs == {RecordingOrder[k] : k \in {h \in 1..Len(RecordingOrder) : attempted(h)}}
           thrown == calc.endFails \in cbs
       IN calc' = [op |-> "commandBuffersCreated", in |-> calc,
                   commands |-> [cb \in cbs |-> RecordedCommands(cb, calc)],
                   failed |-> cbs \cap {calc.beginFails, calc.endFails},
                   thrown |-> thrown,
                   submitted |-> IF thrown THEN {} ELSE cbs]
    /\ UNCHANGED runVars

\* Attachments declared with the lighting result first and the depth image last.
GeomAndLightAttachmentFormats_DepthLast ==
    <<LightingResultImage, GBufferImage(0), GBufferImage(1), GBufferImage(2), DepthImage>>

\* createGeometryAndLightingRenderPass: the image whose format each attachment
\* is declared with, in attachment order.
GeomAndLightAttachmentFormats ==
    <<DepthImage, GBufferImage(0), GBufferImage(1), GBufferImage(2), LightingResultImage>>

\* Either the construction functions are applied to a device and a scene, or
\* the merge pass to a texel of the lighting result and of the blurred image.
PartsInit ==
    /\ RunInit
    /\ calc \in ConstructionInputs
               \cup [op : {"merge"}, lighting : 0..MaxColor, bloom : 0..MaxColor,
                     result : {0}]
               \cup [op : {"createColorAttachmentResources"},
                     extent : [width : 1..MaxExtent, height : 1..MaxExtent]]
               \cup CommandBufferInputs

PartsNext ==
    \/ Constructor
    \/ CreateUniformBuffers
    \/ CreateDescriptorPools
    \/ CreateDescriptorSets
    \/ MergePass
    \/ CreateColorAttachmentResources
    \/ CreateCommandBuffers

PartsSpec == PartsInit /\ [][PartsNext]_vars

MeshHasMap(i, map) ==
    \/ map \in {"albedoMap", "normalMap", "roughnessMap", "metalnessMap"}
    \/ map = "aoMap" /\ calc.in.hasAoMap[i]

\* C16: once the descriptor sets are written, every model's geometry set has
\* all seven bindings populated with an existing resource; binding 6 holds the
\* albedo map's view and sampler when the mesh has no ambient-occlusion map and
\* the ambient-occlusion map's own view and sampler when it has one.
C16_GeomSetFullyPopulated ==
    (calc.op = "createDescriptorSets" /\ calc.calls >= 1)
    => /\ Len(calc.geomSets) = calc.in.numModels
       /\ \A i \in DOMAIN calc.geomSets :
             LET set == calc.geomSets[i]
             IN  /\ DOMAIN set = 0..6
                 /\ \A b \in 2..6 :
                       /\ set[b].type = "sampler"
                       /\ set[b].view[1] = i /\ set[b].sampler[1] = i
                       /\ MeshHasMap(i, set[b].view[2])
                       /\ MeshHasMap(i, set[b].sampler[2])
                 /\ \A b \in 0..1 : set[b].type = "ubo"
                 /\ set[6].view = <<i, IF calc.in.hasAoMap[i] THEN "aoMap" ELSE "albedoMap">>
                 /\ set[6].sampler = set[6].view

\* Sets were written for a scene with a mesh that has an ambient-occlusion map
\* and a mesh that has none.
C16_Witness ==
    /\ calc.op = "createDescriptorSets"
    /\ calc.calls >= 1
    /\ \E i, j \in DOMAIN calc.geomSets :
          /\ calc.in.hasAoMap[i] /\ calc.geomSets[i][6].view[2] = "aoMap"
          /\ ~calc.in.hasAoMap[j] /\ calc.geomSets[j][6].view[2] = "albedoMap"

DescriptorTypes == {"ubo", "sampler", "input", "storage"}

\* C18: for every model count, at every creation of the descriptor sets, the
\* pool is never exhausted: the sets allocated are at most its set count and,
\* for uniform buffers, combined image samplers, input attachments and storage
\* images alike, the descriptors taken are at most the descriptors reserved.
C18_PoolNeverExhausted ==
    calc.op = "createDescriptorSets"
    => /\ ~calc.pool.exhausted
       /\ calc.pool.sets <= calc.pool.maxSets
       /\ \A t \in DescriptorTypes : calc.pool.used[t] <= calc.pool.size[t]
       /\ calc.calls >= 1
          => /\ calc.pool.sets = 8 + calc.in.numModels
             /\ calc.pool.used = [ubo |-> 4 + 2 * calc.in.numModels,
                                  sampler |-> 13 + 5 * calc.in.numModels,
                                  input |-> 4,
                                  storage |-> 1]

\* The sets of the largest scene were created again and again.
C18_Witness ==
    /\ calc.op = "createDescriptorSets"
    /\ calc.calls = MaxCreateCalls
    /\ calc.in.numModels = MaxModels
    /\ calc.pool.sets = 8 + MaxModels

\* C17: the merge pass loads the lighting result instead of clearing it and
\* blends additively, result = source + destination, so that merging a bloom
\* of zero leaves the lighting result as it was.
C17_MergeAddsBloom ==
    calc.op = "merged"
    => /\ BloomRenderPass1.attachments[1].loadOp = LOAD_OP_LOAD
       /\ calc.result = calc.bloom + calc.lighting
       /\ calc.bloom = 0 => calc.result = calc.lighting

\* A lit texel was merged with a bloom of zero.
C17_Witness ==
    /\ calc.op = "merged"
    /\ calc.lighting = MaxColor
    /\ calc.bloom = 0
    /\ calc.result = MaxColor

(***************************************************************************)
(* The post-effect command buffer.                                         *)
(***************************************************************************)
\* The image a bloom pass samples and the image it renders to.
SampledImage(step) ==
    CHOOSE img \in Images :
        \E b \in DescriptorSet(step.draws[1].set) : b.binding = 0 /\ b.image = img
RenderTarget(step) == Framebuffer(step.fb)[1]

\* What a render pass instance of the post-effect command buffer is, by the
\* pipeline it binds and, for the blur pipeline, the image it renders to.
BloomPassKind(step) ==
    CASE step.draws[1].pipeline = "m_bloomPipelines[0]" -> "brightness"
      [] step.draws[1].pipeline = "m_bloomPipelines[2]" -> "merge"
      [] step.draws[1].pipeline = "m_bloomPipelines[1]" ->
            IF RenderTarget(step) = PostEffectImage(1) THEN "horizontal" ELSE "vertical"

PostEffectRunning == gfxQueue # <<>> /\ Head(gfxQueue).kind = "post"

C19_TwelvePasses ==
    /\ NumBlurIterations = 5
    /\ Len(PostEffectCommandBuffer) = 12
    /\ [k \in 1..12 |-> BloomPassKind(PostEffectCommandBuffer[k])]
       = <<"brightness", "horizontal", "vertical", "horizontal", "vertical",
           "horizontal", "vertical", "horizontal", "vertical", "horizontal",
           "vertical", "merge">>
    /\ \A k \in 1..12 :
          /\ Len(PostEffectCommandBuffer[k].draws) = 1
          /\ PostEffectCommandBuffer[k].rp
             = IF k = 12 THEN "m_bloomRenderPasses[1]" ELSE "m_bloomRenderPasses[0]"
    /\ PostEffectRunning => gpuStep \in 0..11

C19_PassesRunInOrder ==
    (PostEffectRunning /\ gpuStep' # gpuStep)
    => \/ gpuStep' = gpuStep + 1
       \/ /\ gpuStep = 11
          /\ gpuStep' = 0
          /\ <<Head(gfxQueue).frame, "post">> \in finished'

\* C19: the post-effect command buffer holds one brightness pass, then exactly
\* five blur iterations, each a horizontal pass followed by a vertical pass,
\* then one merge pass: twelve render pass instances, run in that order.
C19_PostEffectPassOrder == [](C19_TwelvePasses) /\ [][C19_PassesRunInOrder]_vars

\* The eleven passes before the merge have run and the merge is next.
C19_Witness ==
    /\ PostEffectRunning
    /\ gpuStep = 11
    /\ BloomPassKind(NextStep) = "merge"

\* C20: in every bloom pass the image sampled is not the image rendered to;
\* every blur pass samples the image the pass just before it rendered to; the
\* merge pass samples the image the last vertical blur rendered to and renders
\* to the lighting result.
C20_PingPong ==
    /\ \A k \in 1..Len(PostEffectCommandBuffer) :
          LET step == PostEffectCommandBuffer[k]
          IN  /\ SampledImage(step) # RenderTarget(step)
              /\ BloomPassKind(step) \in {"horizontal", "vertical", "merge"}
                 => /\ k > 1
                    /\ SampledImage(step) = RenderTarget(PostEffectCommandBuffer[k - 1])
              /\ BloomPassKind(step) = "merge"
                 => /\ BloomPassKind(PostEffectCommandBuffer[k - 1]) = "vertical"
                    /\ RenderTarget(step) = LightingResultImage
    /\ (PostEffectRunning /\ gpuStep >= 1)
       => SampledImage(NextStep) = RenderTarget(PostEffectCommandBuffer[gpuStep])

\* The last vertical blur has run and the merge, which samples its target, is next.
C20_Witness ==
    /\ PostEffectRunning
    /\ gpuStep = 11
    /\ SampledImage(NextStep) = PostEffectImage(0)
    /\ RenderTarget(NextStep) = LightingResultImage
    /\ 1 \in presented

\* C21: the brightness and blur passes work at half resolution: the two
\* post-effect images, and the viewports of the pipelines that render into
\* them, are half as wide and half as high as the swapchain.
C21_BloomAtHalfResolution ==
    calc.op = "createBloomPipelines"
    => \A i \in 0..1 :
          /\ calc.postEffectImages[i].width = calc.in.extent.width \div 2
          /\ calc.postEffectImages[i].height = calc.in.extent.height \div 2
          /\ calc.viewport[i].width = calc.in.extent.width \div 2
          /\ calc.viewport[i].height = calc.in.extent.height \div 2


\* The positions in command sequence c, in increasing order, of the commands
\* whose name is in `names`.
CmdPositions(c, names) ==
    LET P == {k \in 1..Len(c) : c[k].cmd \in names}
    IN [i \in 1..Cardinality(P) |->
           CHOOSE k \in P : Cardinality({h \in P : h <= k}) = i]

\* The latest command named `name` recorded before position k of c (position 0:
\* there is none).
LastBefore(c, k, name) ==
    LET P == {h \in 1..(k - 1) : c[h].cmd = name}
    IN IF P = {} THEN 0 ELSE CHOOSE h \in P : \A g \in P : g <= h

DrawCmds == {"vkCmdDrawIndexed", "vkCmdDraw", "vkCmdDispatch"}
GeomCb == <<"m_geomAndLightingCommandBuffer", 0>>
GeomRecorded == calc.op = "commandBuffersCreated" /\ GeomCb \in DOMAIN calc.commands

\* C22: the geometry+lighting command buffer is one render-pass instance that
\* holds, in this order, the sky draw, exactly one draw per model (model j drawn
\* with descriptor set j and with its own material push constants), the
\* transition to subpass 1 and exactly one lighting draw; no sky or model draw
\* follows the transition and no lighting draw precedes it.
C22_GeomThenLighting ==
    GeomRecorded
    => LET c == calc.commands[GeomCb]
           models == calc.in.models
           n == Len(models)
           draws == CmdPositions(c, DrawCmds)
           next == CmdPositions(c, {"vkCmdNextSubpass"})
           pipelineAt(k) == c[LastBefore(c, k, "vkCmdBindPipeline")].pipeline
           setAt(k) == c[LastBefore(c, k, "vkCmdBindDescriptorSets")].set
           pushAt(k) == c[LastBefore(c, k, "vkCmdPushConstants")].values
       IN /\ CmdPositions(c, {"vkCmdBeginRenderPass"}) = <<1>>
          /\ CmdPositions(c, {"vkCmdEndRenderPass"}) = <<Len(c)>>
          /\ Len(next) = 1
          /\ Len(draws) = n + 2
          /\ pipelineAt(draws[1]) = "m_skyboxPipeline"
          /\ setAt(draws[1]) = <<"m_skyboxDescriptorSet", 0>>
          /\ \A j \in 0..(n - 1) :
                /\ c[draws[j + 2]].mesh = <<"m_models", j>>
                /\ pipelineAt(draws[j + 2]) = "m_geomPipeline"
                /\ setAt(draws[j + 2]) = <<"m_geomDescriptorSets", j>>
                /\ LastBefore(c, draws[j + 2], "vkCmdPushConstants") > draws[j + 1]
                /\ pushAt(draws[j + 2]) = <<models[j + 1].materialType,
                                            models[j + 1].hasAoMap>>
          /\ draws[n + 1] < next[1]
          /\ next[1] < draws[n + 2]
          /\ pipelineAt(draws[n + 2]) = "m_lightingPipeline"
          /\ setAt(draws[n + 2]) = <<"m_lightingDescriptorSet", 0>>
          /\ LastBefore(c, draws[n + 2], "vkCmdBindPipeline") > next[1]

\* The command buffer was recorded for two models whose push constants differ.
C22_Witness ==
    /\ GeomRecorded
    /\ Len(calc.in.models) = 2
    /\ calc.in.models[1] # calc.in.models[2]
    /\ Len(CmdPositions(calc.commands[GeomCb], DrawCmds)) = 4


\* The render pass and subpass command k of c is recorded in ("none" outside
\* every render-pass instance).
RenderPassAt(c, k) ==
    LET b == LastBefore(c, k, "vkCmdBeginRenderPass")
        e == LastBefore(c, k, "vkCmdEndRenderPass")
    IN IF b = 0 \/ e > b
       THEN [renderPass |-> "none", subpass |-> 0]
       ELSE [renderPass |-> c[b].renderPass,
             subpass |-> Cardinality({h \in (b + 1)..(k - 1) :
                                         c[h].cmd = "vkCmdNextSubpass"})]

\* C23: in every recorded command buffer (precompute, geometry+lighting,
\* post-effect, present) each pipeline is bound in an instance of the render pass
\* and at the subpass index it was created for (the compute pipeline, created
\* for none, outside every instance); each descriptor-set bind and push-constant
\* command passes the layout the pipeline bound at that point was created with;
\* and each pipeline has as many colour-blend attachment states as its subpass
\* has colour attachments.
C23_PipelinesMatchTheirPass ==
    calc.op = "commandBuffersCreated"
    => \A cb \in DOMAIN calc.commands :
          LET c == calc.commands[cb]
          IN \A k \in 1..Len(c) :
                /\ c[k].cmd = "vkCmdBindPipeline"
                   => LET info == PipelineCreateInfo(c[k].pipeline)
                      IN /\ RenderPassAt(c, k).renderPass = info.renderPass
                         /\ RenderPassAt(c, k).subpass = info.subpass
                         /\ info.blendAttachments
                            = IF info.renderPass = "none" THEN 0
                              ELSE Len(RenderPass(info.renderPass)
                                          .subpasses[info.subpass + 1].color)
                /\ c[k].cmd \in {"vkCmdBindDescriptorSets", "vkCmdPushConstants"}
                   => /\ LastBefore(c, k, "vkCmdBindPipeline") > 0
                      /\ c[k].layout
                         = PipelineCreateInfo(
                               c[LastBefore(c, k, "vkCmdBindPipeline")].pipeline).layout
                /\ c[k].cmd \in DrawCmds
                   => LET p == LastBefore(c, k, "vkCmdBindPipeline")
                      IN /\ p > 0
                         /\ RenderPassAt(c, k).renderPass
                            = PipelineCreateInfo(c[p].pipeline).renderPass
                         /\ RenderPassAt(c, k).subpass
                            = PipelineCreateInfo(c[p].pipeline).subpass

\* Every command buffer was recorded, the geometry one for two models.
C23_Witness ==
    /\ calc.op = "commandBuffersCreated"
    /\ DOMAIN calc.commands = {RecordingOrder[k] : k \in 1..Len(RecordingOrder)}
    /\ Len(calc.in.models) = 2
    /\ \E k \in 1..Len(calc.commands[<<"m_postEffectCommandBuffer", 0>>]) :
          calc.commands[<<"m_postEffectCommandBuffer", 0>>][k].cmd = "vkCmdPushConstants"


\* The images a sequence of attachment references designates.
RefImages(refs) == [k \in 1..Len(refs) |-> GeomAndLightAttachmentFormats[refs[k].att + 1]]

\* C24: the geometry+lighting pass keeps one attachment order: attachment 0 is
\* the depth image, 1-3 the G-buffers, 4 the lighting result; the i-th
\* framebuffer view and the i-th clear value belong to the image declared as
\* the i-th attachment; and every subpass reference designates the attachment
\* of the role it is used in (geometry: colour = the G-buffers, depth = depth;
\* lighting: colour = lighting result, inputs = the G-buffers and depth the
\* lighting descriptor set binds as input attachments, depth = depth).
C24_AttachmentOrder ==
    GeomRecorded
    => LET begin == calc.commands[GeomCb][1]
           views == Framebuffer(begin.framebuffer)
           rp == RenderPass(begin.renderPass)
           inputs == {b \in LightingDescriptorSet : b.type = "INPUT_ATTACHMENT"}
       IN /\ GeomAndLightAttachmentFormats
             = <<DepthImage, GBufferImage(0), GBufferImage(1), GBufferImage(2),
                 LightingResultImage>>
          /\ Len(rp.attachments) = 5
          /\ Len(views) = 5
          /\ Len(begin.clearValues) = 5
          /\ \A i \in 1..5 :
                /\ views[i] = GeomAndLightAttachmentFormats[i]
                /\ begin.clearValues[i]
                   = IF GeomAndLightAttachmentFormats[i] = DepthImage
                     THEN "depthStencil" ELSE "color"
          /\ RefImages(rp.subpasses[1].color)
             = <<GBufferImage(0), GBufferImage(1), GBufferImage(2)>>
          /\ RefImages(rp.subpasses[1].depth) = <<DepthImage>>
          /\ rp.subpasses[1].input = <<>>
          /\ RefImages(rp.subpasses[2].color) = <<LightingResultImage>>
          /\ RefImages(rp.subpasses[2].depth) = <<DepthImage>>
          /\ Len(rp.subpasses[2].input) = Cardinality(inputs)
          /\ \A b \in inputs : RefImages(rp.subpasses[2].input)[b.binding] = b.image

\* The geometry+lighting command buffer was recorded and begins its render pass
\* with five clear values on the five-view framebuffer.
C24_Witness ==
    /\ GeomRecorded
    /\ ~calc.thrown
    /\ calc.commands[GeomCb][1].cmd = "vkCmdBeginRenderPass"
    /\ calc.commands[GeomCb][1].framebuffer = <<"m_geomAndLightingFramebuffer", 0>>
    /\ Len(calc.commands[GeomCb][1].clearValues) = 5


EnvCb == <<"m_envPrefilterCommandBuffer", 0>>
\* The positions at which the specular prefilter passes begin, in order.
SpecPasses(c) ==
    LET P == {k \in 1..Len(c) : /\ c[k].cmd = "vkCmdBeginRenderPass"
                                /\ c[k].framebuffer[1] = "m_specEnvPrefilterFramebuffers"}
    IN [i \in 1..Cardinality(P) |->
           CHOOSE k \in P : Cardinality({h \in P : h <= k}) = i]
\* The roughness pushed in the pass that begins at position k.
PushedRoughness(c, k) ==
    c[CHOOSE h \in (k + 1)..Len(c) :
         /\ c[h].cmd = "vkCmdPushConstants"
         /\ \A g \in (k + 1)..(h - 1) : c[g].cmd # "vkCmdPushConstants"].values[1]

\* C25: specular prefiltering records one pass per mip level L = 0 ..
\* mipLevels - 1, in increasing L; pass L renders into the framebuffer of mip L
\* with face size SPEC_IRRADIANCE_MAP_SIZE / 2^L and pushes roughness
\* L / (mipLevels - 1): 0 at the first level, 1 at the last, linear in between,
\* for every mip count, a mip count of 1 included.
C25_RoughnessPerMip ==
    (calc.op = "commandBuffersCreated" /\ EnvCb \in DOMAIN calc.commands)
    => LET c == calc.commands[EnvCb]
           mipLevels == calc.in.mipLevels
           passes == SpecPasses(c)
       IN /\ Len(passes) = mipLevels
          /\ \A L \in 0..(mipLevels - 1) :
                /\ c[passes[L + 1]].framebuffer = <<"m_specEnvPrefilterFramebuffers", L>>
                /\ c[passes[L + 1]].extent.width = calc.in.mapSize \div (2 ^ L)
                /\ c[passes[L + 1]].extent.height = calc.in.mapSize \div (2 ^ L)
                /\ PushedRoughness(c, passes[L + 1]) * (mipLevels - 1) = L * RoughnessOne
          /\ PushedRoughness(c, passes[1]) = 0
          /\ PushedRoughness(c, passes[mipLevels]) = RoughnessOne


\* C26: at shutdown the device-idle wait of savePrecomputationResults comes
\* before every image-to-buffer copy and host read: no precompute result has
\* been read back while that wait has not returned.
C26_IdleBeforeReadBack ==
    savedToDisk # {} => pc \notin {"save", "save_idle"}


\* C27: a failing recording call, vkBeginCommandBuffer or vkEndCommandBuffer, of
\* any command buffer (BRDF LUT, environment prefilter, geometry+lighting,
\* post-effect, each present buffer) raises an error that aborts startup, and no
\* command buffer whose recording failed is submitted.
C27_RecordingFailureIsFatal ==
    calc.op = "commandBuffersCreated"
    => /\ calc.failed # {} => calc.thrown
       /\ calc.failed \cap calc.submitted = {}


\* The queue entries of kind `kinds` submitted for frame f.
QueuedFor(f, kinds) ==
    {gfxQueue[k] : k \in {h \in 1..Len(gfxQueue) :
                            gfxQueue[h].frame = f /\ gfxQueue[h].kind \in kinds}}

\* C28: in a frame that is not skipped the acquired image index is used
\* throughout: the final batch submitted is the present command buffer of that
\* index, that command buffer renders into the framebuffer of the swapchain
\* image of that index, and the present request presents that index; and there
\* is exactly one present command buffer per swapchain framebuffer.
C28_ImageIndexConsistent ==
    /\ (pc = "present" /\ Len(frameSubmits) = 3)
       => /\ frameSubmits[3].cb = <<"m_presentCommandBuffers", imageIndex>>
          /\ \A k \in 1..2 : frameSubmits[k].cb[1] # "m_presentCommandBuffers"
    /\ \A k \in 1..Len(gfxQueue) :
          LET b == gfxQueue[k]
          IN /\ b.kind = "final"
                => /\ b.cb[1] = "m_presentCommandBuffers"
                   /\ Len(CommandBuffer(b.cb)) = 1
                   /\ CommandBuffer(b.cb)[1].fb = <<"m_finalOutputFramebuffers", b.cb[2]>>
                   /\ Framebuffer(CommandBuffer(b.cb)[1].fb) = <<SwapChainImage(b.cb[2])>>
                   /\ b.frame = frame /\ pc \in {"present"} => b.cb[2] = imageIndex
             /\ b.kind \in {"present", "presentRejected"}
                => /\ \A s \in QueuedFor(b.frame, {"final"}) : s.cb[2] = b.cb[2]
                   /\ (b.frame = frame /\ Len(frameSubmits) = 3)
                      => b.cb[2] = frameSubmits[3].cb[2]
    /\ \A i \in 0..(NumSwapImages - 1) :
          Cardinality({cb \in AllCommandBuffers :
                          \E k \in 1..Len(CommandBuffer(cb)) :
                             CommandBuffer(cb)[k].fb = <<"m_finalOutputFramebuffers", i>>}) = 1
    /\ Cardinality({cb \in AllCommandBuffers : cb[1] = "m_presentCommandBuffers"})
       = NumSwapImages

\* The final batch and the present request of one frame are both queued, for
\* swapchain image 1.
C28_Witness ==
    \E b \in QueuedFor(frame, {"present"}) :
       /\ b.cb[2] = 1
       /\ QueuedFor(frame, {"final"}) # {}


\* C30: the synchronization objects are exactly the four semaphores of the
\* frame chain (image acquired, geometry+lighting done, post-effect done,
\* output done), each signalled and waited on by the chain, so that every
\* semaphore has been signalled once a frame has been presented, plus two
\* fences, each the fence of exactly one precompute submission.
C30_SyncSetIsFrameChain ==
    /\ Cardinality(Semaphores) = 4
    /\ \A s \in Semaphores :
          /\ s \in {FrameBatches(frame, imageIndex)[k].wait : k \in 1..3}
                   \cup {PresentWaits[k] : k \in 1..Len(PresentWaits)}
          /\ s \in {FrameBatches(frame, imageIndex)[k].signal : k \in 1..3}
                   \cup {"m_imageAvailableSemaphore"}
          /\ presented # {} => semSignaler[s] # <<0, "none">>
    /\ \A f \in Fences :
          Cardinality({b \in {BrdfLutBatch, EnvPrefilterBatch} : b.fence = f}) = 1


\* C29: every uniform-buffer descriptor binds exactly one region of the
\* uniform blob: the (offset, size) written into each of them (prefilter cube
\* camera, skybox transform, per-model transform and per-model info, lighting
\* info, display info) is the offset and the size of the region allocated for
\* the structure the binding backs.
C29_DescriptorsBindRegions ==
    (calc.op = "createDescriptorSets" /\ calc.calls > 0)
    => /\ Cardinality(calc.uniformDescriptors) = 4 + 2 * calc.in.numModels
       /\ \A d \in calc.uniformDescriptors :
             /\ d.offset = calc.blob.allocs[d.region].offset
             /\ d.size = calc.blob.allocs[d.region].size

(***************************************************************************)
(* Consecutive frames on the images every frame shares.                    *)
(***************************************************************************)
GeomAndLightingImages == {DepthImage, LightingResultImage} \cup {GBufferImage(i) : i \in 0..2}
PingPongImages == {PostEffectImage(i) : i \in 0..1}

\* Within the geometry+lighting batch no image is read before the batch has
\* written it, and no bloom pass samples a ping-pong image the post-effect
\* batch has not written before: a write-after-read hazard on these images is
\* a write that is not ordered after a read made by an earlier batch.
C31_WritesAfterEarlierReads ==
    \A h \in hazards :
        h.kind = "WRITE_AFTER_READ"
        => /\ ~(h.rp = "m_geomAndLightRenderPass" /\ h.image \in GeomAndLightingImages)
           /\ ~(h.rp \in BloomRenderPassNames /\ h.image \in PingPongImages)

\* A step that signals a semaphore finds it unsignalled.
C31_SignalFindsUnsignaled ==
    \A s \in Semaphores :
        (\/ semSignaler'[s] # semSignaler[s]
         \/ /\ s = "m_imageAvailableSemaphore"
            /\ acqPending' # acqPending
            /\ acqPending' \subseteq acqPending)
        => ~sem[s]

\* C31: without CPU-side throttling consecutive frames do not conflict on the
\* images all frames share: the geometry+lighting batch of frame N+1 does not
\* write the depth, G-buffer and lighting-result images, and the post-effect
\* batch of frame N+1 does not write the ping-pong images, before the batches
\* of frame N that read them have finished; and no chain semaphore is
\* signalled again while its previous signal has not been consumed by a wait.
C31_ConsecutiveFramesDoNotConflict ==
    [](C31_WritesAfterEarlierReads) /\ [][C31_SignalFindsUnsignaled]_vars

(***************************************************************************)
(* The frame chain with a GPU that makes progress.                         *)
(***************************************************************************)
\* The graphics and compute queues execute what was submitted to them and the
\* presentation engine makes acquired images available; nothing is assumed
\* about how fast the CPU thread runs.
GpuProgress ==
    /\ WF_vars(GraphicsQueue_Execute)
    /\ WF_vars(ComputeQueue_Execute)
    /\ WF_vars(PresentationEngine_SignalImageAvailable)

FairSpec == Spec /\ GpuProgress

ChainSemaphores ==
    {"m_imageAvailableSemaphore", "m_geomAndLightingCompleteSemaphore",
     "m_postEffectSemaphore", "m_finalOutputFinishedSemaphore"}

\* The operation of the same frame whose signal a batch of the chain waits for.
ChainPredecessor(kind) ==
    CASE kind = "geom" -> "acquire"
      [] kind = "post" -> "geom"
      [] kind = "final" -> "post"
      [] OTHER -> "final"

\* Every wait of the chain is released by the signal of the operation
\* submitted just before it in the same frame.
C32_WaitReleasedBySameFrame ==
    \A s \in started :
        s.kind \in {"geom", "post", "final", "present", "presentRejected"}
        => s.signaledBy = <<s.frame, ChainPredecessor(s.kind)>>

\* A signal is delivered to an unsignalled semaphore and stays there for its
\* one wait: the signal of an acquisition is the one the semaphore then holds.
C32_SignalReachesItsWait ==
    \A f \in acqPending :
        f \notin acqPending'
        => /\ ~sem["m_imageAvailableSemaphore"]
           /\ sem'["m_imageAvailableSemaphore"]
           /\ semSignaler'["m_imageAvailableSemaphore"] = <<f, "acquire">>

\* When the graphics queue starts a frame, that is its geometry+lighting
\* batch, all four chain semaphores are unsignalled.
C32_UnsignaledWhenFrameStarts ==
    \A s \in started' \ started :
        s.kind = "geom" => \A c \in ChainSemaphores : ~sem'[c]

\* After a frame skipped by an out-of-date acquisition drawFrame returns to
\* the loop with all four unsignalled and no acquisition outstanding.
C32_UnsignaledAfterSkippedFrame ==
    (pc = "loop" /\ acqResult = VK_ERROR_OUT_OF_DATE_KHR)
    => /\ \A c \in ChainSemaphores : ~sem[c]
       /\ acqPending = {}

\* A frame whose present request was queued is eventually presented.
C32_PresentReached ==
    \A f \in 1..MaxFrames : (QueuedFor(f, {"present"}) # {}) ~> (f \in presented)

\* C32: the per-frame chain cannot deadlock: in every frame whose acquisition
\* succeeds each batch's wait semaphore is signalled by the operation submitted
\* before it in the same frame (the acquisition or the previous batch), each
\* signal is consumed by exactly one wait, and so, if the GPU eventually
\* executes submitted work, the present of the frame is eventually reached and
\* all four chain semaphores are unsignalled again when the next frame starts,
\* also after a frame skipped by an out-of-date acquisition.
C32_ChainCannotDeadlock ==
    /\ [](C32_WaitReleasedBySameFrame)
    /\ [][C32_SignalReachesItsWait]_vars
    /\ [][C32_UnsignaledWhenFrameStarts]_vars
    /\ [](C32_UnsignaledAfterSkippedFrame)
    /\ C32_PresentReached

(***************************************************************************)
(* The fences of the precompute wait.                                      *)
(***************************************************************************)
\* The job has been handed to its queue by prefilterEnvironmentAndComputeBrdfLut.
PrecomputeSubmitted(batch) ==
    \/ \E i \in DOMAIN computeQueue : computeQueue[i] = batch
    \/ \E i \in DOMAIN gfxQueue : gfxQueue[i] = batch
    \/ <<batch.frame, batch.kind>> \in finished

AfterPrecomputeWaitPcs == {"pre_transition"} \cup FrameLoopPcs \cup AfterDrawFramePcs

\* C33: the precompute wait cannot block on a fence nobody signals: whatever
\* artifacts are cached or missing, a fence is among those the CPU waits for
\* if and only if the job that signals it was submitted in the same call (the
\* BRDF fence with the BRDF LUT job, the prefilter fence with the prefilter
\* job), so that while the CPU waits every waited fence is signalled or has
\* its job in a queue; the command buffer of every submitted job was
\* recorded, with the pass of every missing artifact in it; and once the wait
\* has returned the waited fences are reset.
C33_WaitedFencesAreSignaled ==
    /\ \A b \in {BrdfLutBatch, EnvPrefilterBatch} :
          b.fence \in FencesToWaitFor <=> PrecomputeSubmitted(b)
    /\ pc = "pre_wait"
       => \A f \in FencesToWaitFor :
             \/ fenceSignaled[f]
             \/ \E i \in DOMAIN computeQueue : computeQueue[i].fence = f
             \/ \E i \in DOMAIN gfxQueue : gfxQueue[i].fence = f
    /\ PrecomputeSubmitted(BrdfLutBatch) => "brdfLut" \in recorded
    /\ PrecomputeSubmitted(EnvPrefilterBatch)
       => /\ recorded \cap {"diffuseMap", "specularMap"} # {}
          /\ {"diffuseMap", "specularMap"} \ cacheFiles \subseteq recorded
    /\ pc \in AfterPrecomputeWaitPcs => \A f \in FenceSet : ~fenceSignaled[f]

\* Only the specular map was missing: the prefilter job alone was submitted,
\* its fence alone was waited for, and the wait has returned.
C33_Witness ==
    /\ cacheFiles = {"brdfLut", "diffuseMap"}
    /\ fences = <<"m_envPrefilterFence">>
    /\ <<0, "prefilter">> \in finished
    /\ <<0, "brdf">> \notin finished
    /\ pc = "pre_transition"

====
